---- MODULE Spec2Model ----
(***************************************************************************)
(* A model of the Docker container MCP server: the exec stream             *)
(* demultiplexer (parseDockerStream) and its copy in the code editing      *)
(* server, shell-argument escaping (escapeShellArg), the exec tool handler *)
(* with its timeout race, the other tool handlers call by call, the file   *)
(* tools of the code editing server, get_compose_file and list_containers, *)
(* and the HTTP front end with its optional bearer-token check             *)
(* (authMiddleware) and the lifecycle of a request.                        *)
(***************************************************************************)
EXTENDS Integers, Sequences, FiniteSets, TLC

VARIABLES
    \* ---- exec stream demultiplexer (parseDockerStream) ----
    frames,     \* ghost: the complete frames the input was built from
    trailing,   \* ghost: the truncated bytes that follow the frames
    data,       \* the Buffer handed to parseDockerStream
    offset,     \* loop variable `offset`
    stdout,     \* accumulated stdout string (sequence of code points)
    stderr,     \* accumulated stderr string (sequence of code points)
    ppc,        \* "idle" | "loop" | "done"
    \* ---- shell-argument escaping (escapeShellArg) ----
    arg,        \* the string handed to escapeShellArg
    word,       \* the shell word escapeShellArg returned
    shres,      \* what the shell makes of that word
    spc,        \* "idle" | "start" | "escaped" | "done"
    \* ---- the exec tool: executeDockerCommand raced against a timer ----
    timeoutParam,     \* params.timeout as sent: "omitted" or seconds as a string
    containerRunning, \* what container.inspect() reports in info.State.Running
    streamData,       \* the bytes the exec stream will deliver
    elapsed,          \* whole seconds since the handler was called
    timerFired,       \* the setTimeout callback has run
    cpc,              \* where executeDockerCommand stands
    execCreated,      \* container.exec() created an exec instance
    chunks,           \* the Buffers pushed by stream.on('data')
    cmdOutcome,       \* settlement of executeDockerCommand's promise
    hpc,              \* "idle" | "pending" | "returned"
    content,          \* the content array of the returned CallToolResult
    cmdFirst,         \* ghost: the command settled before the timer fired
    \* ---- the other tool handlers, call by call ----
    tool,       \* the tool called ("none" when no such call is modelled)
    tstep,      \* the call of the handler's body that is awaited
    tstatus,    \* "idle" | "running" | "returned" | "rejected"
    tcontent,   \* the content array of the returned CallToolResult
    thrown,     \* ghost: what the failing Docker call threw ("none" if none did)
    serverState,\* the module-level variables: the Docker client, the tool context
    calls,      \* tool calls started so far
    firstStep,  \* ghost: the step the current call started at
    answers,    \* ghost: what the awaited calls of the current call answered
    \* ---- one call of a file tool of the code-editing server ----
    ftool,      \* "read_file" | "write_file" | "search_replace" | "list_dir" | "delete_file"
    fargs,      \* the call's parameters
    target,         \* the container's file system at the target path: [kind, data]
    target0,        \* ghost: target when the call started
    fsTouched,  \* ghost: another process changed the path during the call
    fpc,        \* the handler's position: the command it awaits
    cphase,     \* "none" | "calling" | "running" | "ended" | "read"
    fcmd,       \* the command of the executeDockerCommand call in progress
    running,    \* commands started by the call whose stream has not ended
    issued,     \* ghost: the names of the commands started, in order
    exitsRead,  \* ghost: how many of them had their exit code read
    cres,       \* what the last executeDockerCommand returned
    flocal,     \* the handler's locals: exists, content
    fstatus,    \* "idle" | "running" | "returned" | "rejected"
    fresult,    \* the text the handler returned
    \* ---- one call of get_compose_file or list_containers ----
    htool,          \* "get_compose_file" | "list_containers"
    composeFile,    \* get_compose_file's compose_file parameter
    hostFiles,      \* the host's files: path -> "unreadable" | "empty" | "text"
    ci,             \* the loop's position in possiblePaths
    foundPath,      \* get_compose_file's foundPath
    composeContent, \* get_compose_file's composeContent
    allParam,       \* list_containers' all parameter: "omitted" | "true" | "false"
    daemon,         \* the daemon's containers, in its order
    queried,        \* the all flag the daemon was asked with ("none": not asked)
    hstatus,        \* "idle" | "running" | "returned"
    hresult,        \* the text the handler returned
    \* ---- the HTTP server: one request ----
    authToken,        \* process.env.MCP_AUTH_TOKEN: [set, value]
    method,           \* "POST" | "GET" | "DELETE" on /mcp
    authHeader,       \* req.headers.authorization: [present, value]
    rpc,              \* "idle" | "received" | "route" | "connect" | "handle" | "done"
    resStatus,        \* HTTP status of the response (0: none sent)
    resCode,          \* JSON-RPC error code of the response body (0: none)
    headersSent,      \* res.headersSent
    nextCalls,        \* how often authMiddleware called next()
    authResponded,    \* authMiddleware sent the response itself
    serverCreated,    \* getServer() built an McpServer for the request
    transportCreated, \* a StreamableHTTPServerTransport was built
    toolRan,          \* a tool handler was invoked for the request
    built,            \* how many servers and transports the request built
    resStarts,        \* how often a response was started (status line written)
    threw,            \* ghost: the awaited call that threw: "none" | "connect" | "handle"
    sentBefore,       \* ghost: res.headersSent when the catch block looked at it
    closeListener,    \* res.on('close', ...) has been registered
    resClosed,        \* the response's 'close' event has been emitted
    transportClosed,  \* transport.close() was called
    serverClosed      \* server.close() was called

parseVars == <<frames, trailing, data, offset, stdout, stderr, ppc>>

shellVars == <<arg, word, shres, spc>>

execVars ==
    <<timeoutParam, containerRunning, streamData, elapsed, timerFired, cpc,
      execCreated, chunks, cmdOutcome, hpc, content, cmdFirst>>

toolVars ==
    <<tool, tstep, tstatus, tcontent, thrown, serverState, calls, firstStep,
      answers>>

fileVars ==
    <<ftool, fargs, target, target0, fsTouched, fpc, cphase, fcmd, running, issued,
      exitsRead, cres, flocal, fstatus, fresult>>

hostVars ==
    <<htool, composeFile, hostFiles, ci, foundPath, composeContent, allParam,
      daemon, queried, hstatus, hresult>>

httpVars ==
    <<authToken, method, authHeader, rpc, resStatus, resCode, headersSent,
      nextCalls, authResponded, serverCreated, transportCreated, toolRan,
      built, resStarts, threw, sentBefore, closeListener, resClosed,
      transportClosed, serverClosed>>

vars ==
    <<parseVars, shellVars, execVars, toolVars, httpVars, fileVars, hostVars>>

(***************************************************************************)
(* Bounds of the model.                                                    *)
(***************************************************************************)
MaxFrames == 2
MaxArgLen == 3
MaxTime == 31
MaxChunks == 2
MaxTokenLen == 2
MaxCalls == 2
MaxFileLen == 3
MaxContainers == 2

(***************************************************************************)
(* Sequences helpers.                                                      *)
(***************************************************************************)
Min(a, b) == IF a < b THEN a ELSE b

SeqsUpTo(S, n) == UNION {[1..k -> S] : k \in 0..n}

\* Buffer.slice(start, end): both ends are clamped to the buffer.
Slice(d, start, end) ==
    LET e == Min(end, Len(d))
        s == Min(start, e)
    IN  SubSeq(d, s + 1, e)

(***************************************************************************)
(* Bytes on the wire.  Payloads are drawn from an ASCII letter, the UTF-8   *)
(* encoding of U+00E9 (0xC3 0xA9) and each of its two bytes alone.  Tag 3  *)
(* stands for every tag that is neither stdout (1) nor stderr (2).         *)
(***************************************************************************)
PayloadChoices == {<<>>, <<65>>, <<195>>, <<169>>, <<195, 169>>}
Tags == {1, 2, 3}
ReplacementChar == 65533

Frames == [tag : Tags, payload : PayloadChoices]

\* A frame as Docker writes it: tag, 3 reserved bytes, 4-byte big-endian
\* payload length, payload.
EncodeFrame(f) ==
    LET n == Len(f.payload)
    IN  <<f.tag, 0, 0, 0,
          (n \div 16777216) % 256, (n \div 65536) % 256,
          (n \div 256) % 256, n % 256>> \o f.payload

RECURSIVE EncodeFrames(_)
EncodeFrames(fs) ==
    IF fs = <<>> THEN <<>>
    ELSE EncodeFrame(Head(fs)) \o EncodeFrames(Tail(fs))

\* Truncated tails: a cut-off header, a full header announcing more bytes
\* than remain, and a header announcing 256 bytes (length not in the low byte).
Trailings ==
    {<<>>, <<1>>, <<2, 0, 0, 0, 0, 0, 0>>,
     <<1, 0, 0, 0, 0, 0, 0, 1>>,
     <<1, 0, 0, 0, 0, 0, 0, 2, 65>>,
     <<2, 0, 0, 0, 0, 0, 1, 0, 65>>}

(***************************************************************************)
(* Buffer.toString(): UTF-8 decoding.  An ASCII byte is its code point, a  *)
(* two-byte sequence (lead 0xC2..0xDF, continuation 0x80..0xBF) is one     *)
(* code point, every other byte decodes to U+FFFD.                         *)
(***************************************************************************)
RECURSIVE Utf8Decode(_)
Utf8Decode(b) ==
    IF b = <<>> THEN <<>>
    ELSE IF b[1] < 128 THEN <<b[1]>> \o Utf8Decode(Tail(b))
    ELSE IF /\ b[1] >= 194 /\ b[1] <= 223
            /\ Len(b) >= 2 /\ b[2] >= 128 /\ b[2] <= 191
         THEN <<(b[1] - 192) * 64 + (b[2] - 128)>> \o Utf8Decode(Tail(Tail(b)))
    ELSE <<ReplacementChar>> \o Utf8Decode(Tail(b))

(***************************************************************************)
(* parseDockerStream, one loop iteration at a time.                        *)
(***************************************************************************)
\* data.readUInt32BE(off)
readUInt32BE(d, off) ==
    d[off + 1] * 16777216 + d[off + 2] * 65536 + d[off + 3] * 256 + d[off + 4]

\* `if (offset + 8 > data.length) break;` negated
HeaderFits(d, off) == off + 8 <= Len(d)

\* The mutant: the declared length is never checked against the buffer.
PayloadFitsUnchecked(d, off, size) == TRUE

\* `if (offset + 8 + size > data.length) break;` negated
PayloadFits(d, off, size) == off + 8 + size <= Len(d)

\* The mutant: `else` in place of `else if (streamType === 2)`.
AccumulateElse(st, streamType, chunk) ==
    IF streamType = 1
    THEN [st EXCEPT !.stdout = @ \o chunk]
    ELSE [st EXCEPT !.stderr = @ \o chunk]

\* `if (streamType === 1) stdout += chunk; else if (streamType === 2) stderr += chunk;`
Accumulate(st, streamType, chunk) ==
    IF streamType = 1 THEN [st EXCEPT !.stdout = @ \o chunk]
    ELSE IF streamType = 2 THEN [st EXCEPT !.stderr = @ \o chunk]
    ELSE st

\* The mutant: the header's 8 bytes are not skipped.
AdvancePayloadOnly(off, size) == off + size

\* `offset += 8 + size;`
Advance(off, size) == off + 8 + size

\* One pass through the body of `while (offset < data.length)`.  st is
\* [offset, stdout, stderr, done]; done is set when the loop is left.
ParseIter(d, st) ==
    IF ~(st.offset < Len(d)) THEN [st EXCEPT !.done = TRUE]
    ELSE IF ~HeaderFits(d, st.offset) THEN [st EXCEPT !.done = TRUE]
    ELSE LET streamType == d[st.offset + 1]
             size == readUInt32BE(d, st.offset + 4)
         IN  IF ~PayloadFits(d, st.offset, size) THEN [st EXCEPT !.done = TRUE]
             ELSE LET chunk == Utf8Decode(Slice(d, st.offset + 8, st.offset + 8 + size))
                  IN  [Accumulate(st, streamType, chunk) EXCEPT
                          !.offset = Advance(st.offset, size)]

ParseStart == [offset |-> 0, stdout |-> <<>>, stderr |-> <<>>, done |-> FALSE]

RECURSIVE ParseRun(_, _)
ParseRun(d, st) == IF st.done THEN st ELSE ParseRun(d, ParseIter(d, st))

\* parseDockerStream(data) as a function of its input.
parseDockerStream(d) ==
    LET st == ParseRun(d, ParseStart)
    IN  [stdout |-> st.stdout, stderr |-> st.stderr]


(***************************************************************************)
(* escapeShellArg and the shell that reads its result.                     *)
(***************************************************************************)
\* Characters are code points.
SQ == 39
DQ == 34
BS == 92
DOLLAR == 36
BT == 96
SP == 32
NL == 10
LETTER == 97

Chars == {SQ, DQ, BS, DOLLAR, BT, SP, NL, LETTER}

\* The mutant: the argument wrapped in single quotes, embedded quotes kept.
RECURSIVE ReplaceQuotesNone(_)
ReplaceQuotesNone(a) ==
    IF a = <<>> THEN <<>> ELSE <<Head(a)>> \o ReplaceQuotesNone(Tail(a))

\* arg.replace: every single quote becomes the four characters
\* quote, backslash, quote, quote.
RECURSIVE ReplaceQuotes(_)
ReplaceQuotes(a) ==
    IF a = <<>> THEN <<>>
    ELSE (IF Head(a) = SQ THEN <<SQ, BS, SQ, SQ>> ELSE <<Head(a)>>)
         \o ReplaceQuotes(Tail(a))

\* The return value: the replaced text between two single quotes.
escapeShellArg(a) == <<SQ>> \o ReplaceQuotes(a) \o <<SQ>>

\* The shell's reading of a piece of command text (bash quoting rules):
\* the words it yields, whether any expansion or substitution was started,
\* and whether a quote was left open.  sh is the scanner's state:
\* mode ("plain" | "single" | "double"), cur (the word being built),
\* started (a word is being built), words, expanded.
ShellStart ==
    [mode |-> "plain", cur |-> <<>>, started |-> FALSE, words |-> <<>>,
     expanded |-> FALSE]

EndWord(sh) ==
    IF sh.started
    THEN [sh EXCEPT !.words = @ \o <<sh.cur>>, !.cur = <<>>, !.started = FALSE]
    ELSE sh

Lit(sh, c) == [sh EXCEPT !.cur = @ \o <<c>>, !.started = TRUE]

\* Characters that make an unquoted or double-quoted $ start an expansion.
StartsExpansion(c) == c \in {LETTER, SQ, DQ, BT, DOLLAR}

RECURSIVE ShellScan(_, _, _)
ShellScan(w, i, sh) ==
    IF i > Len(w)
    THEN LET e == EndWord(sh)
         IN  [words |-> e.words, expanded |-> e.expanded,
              error |-> sh.mode # "plain"]
    ELSE LET c == w[i]
             more == i < Len(w)
         IN
         CASE sh.mode = "single" ->
                IF c = SQ THEN ShellScan(w, i + 1, [sh EXCEPT !.mode = "plain"])
                ELSE ShellScan(w, i + 1, Lit(sh, c))
           [] sh.mode = "double" ->
                IF c = DQ THEN ShellScan(w, i + 1, [sh EXCEPT !.mode = "plain"])
                ELSE IF c = BS /\ more /\ w[i + 1] \in {DOLLAR, BT, DQ, BS}
                     THEN ShellScan(w, i + 2, Lit(sh, w[i + 1]))
                ELSE IF c = BS /\ more /\ w[i + 1] = NL
                     THEN ShellScan(w, i + 2, sh)
                ELSE IF c = BT \/ (c = DOLLAR /\ more /\ StartsExpansion(w[i + 1]))
                     THEN ShellScan(w, i + 1, [sh EXCEPT !.expanded = TRUE])
                ELSE ShellScan(w, i + 1, Lit(sh, c))
           [] OTHER ->
                IF c = SQ
                THEN ShellScan(w, i + 1, [sh EXCEPT !.mode = "single", !.started = TRUE])
                ELSE IF c = DQ
                THEN ShellScan(w, i + 1, [sh EXCEPT !.mode = "double", !.started = TRUE])
                ELSE IF c = BS /\ more /\ w[i + 1] = NL
                THEN ShellScan(w, i + 2, sh)
                ELSE IF c = BS /\ more
                THEN ShellScan(w, i + 2, Lit(sh, w[i + 1]))
                ELSE IF c \in {SP, NL}
                THEN ShellScan(w, i + 1, EndWord(sh))
                ELSE IF c = BT \/ (c = DOLLAR /\ more /\ StartsExpansion(w[i + 1]))
                THEN ShellScan(w, i + 1, [sh EXCEPT !.expanded = TRUE])
                ELSE ShellScan(w, i + 1, Lit(sh, c))

ShellEval(w) == ShellScan(w, 1, ShellStart)

NoShellResult == [words |-> <<>>, expanded |-> FALSE, error |-> FALSE]

ShellIdle ==
    /\ arg = <<>> /\ word = <<>> /\ shres = NoShellResult /\ spc = "idle"


(***************************************************************************)
(* The exec tool: results, the timer, executeDockerCommand.                *)
(***************************************************************************)
DefaultTimeout == 30

TimeoutParams == {"omitted", "1", "2"}

\* z.number().optional().default(30): the seconds the timer is armed with.
Timeout(param) ==
    CASE param = "1" -> 1 [] param = "2" -> 2 [] OTHER -> DefaultTimeout

\* A text content item.  An error text is prefix + message; an output text
\* is the STDOUT section, the STDERR section and the exit code line.
ErrorText(prefix, message) ==
    [type |-> "text", prefix |-> prefix, message |-> message,
     sections |-> <<>>, exitCode |-> "none"]

\* The mutant: a section is written even when its stream is empty.
SectionAlways(label, body) == <<[label |-> label, body |-> body]>>

Section(label, body) ==
    IF body # <<>> THEN <<[label |-> label, body |-> body]>> ELSE <<>>

\* Lines 137-144 of the handler: `if (result.stdout) ...`,
\* `if (result.stderr) ...`, then the exit code.
OutputText(result) ==
    [type |-> "text", prefix |-> "", message |-> "",
     sections |-> Section("STDOUT:", result.stdout)
                  \o Section("STDERR:", result.stderr),
     exitCode |-> result.exitCode]

TimeoutError == "Command timeout"
NotRunningError == "Container is not running"
DaemonErrors == {"connect ENOENT /var/run/docker.sock", "No such container"}
StreamError == "stream error"

\* A thrown value that is no Error object.
NonError == "(not an Error)"

\* `error instanceof Error ? error.message : fallback`
CaughtMessage(value, fallback) == IF value = NonError THEN fallback ELSE value

Unsettled == [state |-> "pending", value |-> "none"]
Resolved(result) == [state |-> "resolved", value |-> result]
Rejected(message) == [state |-> "rejected", value |-> message]

\* What the handler returns for a settled promise: the try block's output
\* for a resolution, the catch block's text for a rejection.
HandlerResult(outcome) ==
    IF outcome.state = "resolved"
    THEN <<OutputText(outcome.value)>>
    ELSE <<ErrorText("Execution error: ",
                     CaughtMessage(outcome.value, "Unknown error"))>>

\* The mutant: the command alone is awaited; the timer's promise is left
\* without a reaction.
RaceInputsCommandOnly == {"command"}

\* The promises handed to Promise.race.  Promise.race attaches a fulfilment
\* and a rejection reaction to each of them when it is called.
RaceInputs == {"command", "timer"}

\* The mutant: the settlement that comes last decides.
RaceLast(current, settled) == HandlerResult(settled)

\* Promise.race: the first settlement decides what the handler returns;
\* a later one changes nothing.  current is the content returned so far
\* (empty while the handler is pending).
Race(current, settled) ==
    IF current = <<>> THEN HandlerResult(settled) ELSE current

\* Streams the exec may produce.
StreamChoices ==
    {<<>>,
     EncodeFrame([tag |-> 1, payload |-> <<65>>]),
     EncodeFrame([tag |-> 2, payload |-> <<65>>])
        \o EncodeFrame([tag |-> 1, payload |-> <<195, 169>>])}

ExitCodes == {"0", "1"}

RECURSIVE Concat(_)
\* Buffer.concat(chunks)
Concat(bufs) == IF bufs = <<>> THEN <<>> ELSE Head(bufs) \o Concat(Tail(bufs))

ExecIdle ==
    /\ timeoutParam = "omitted" /\ containerRunning = FALSE
    /\ streamData = <<>> /\ elapsed = 0 /\ timerFired = FALSE
    /\ cpc = "idle" /\ execCreated = FALSE /\ chunks = <<>>
    /\ cmdOutcome = Unsettled /\ hpc = "idle" /\ content = <<>>
    /\ cmdFirst = FALSE


(***************************************************************************)
(* The other tool handlers.  A handler is a sequence of awaited calls      *)
(* (Docker commands, host file reads) and checks; each has a good outcome  *)
(* ("ok"), possibly an unfavourable one ("neg": a check that answers no, a *)
(* non-zero exit code, an empty result) and, for a call, a thrown error    *)
(* ("thr").  An exit says what the handler does next.                      *)
(***************************************************************************)
ToolNames ==
    {"list_containers", "get_container_info", "get_compose_file",
     "get_compose_file_target", "read_file", "write_file", "search_replace",
     "list_dir", "grep", "find_files", "delete_file"}

Goto(n) == [kind |-> "goto", step |-> n, prefix |-> "", message |-> ""]
Return(prefix, message) ==
    [kind |-> "return", step |-> 0, prefix |-> prefix, message |-> message]
CatchAs(prefix, fallback) ==
    [kind |-> "catch", step |-> 0, prefix |-> prefix, message |-> fallback]
Escapes == [kind |-> "throw", step |-> 0, prefix |-> "", message |-> ""]
Never == [kind |-> "none", step |-> 0, prefix |-> "", message |-> ""]

\* The text each handler's catch block puts before the error's message.
CatchPrefix(t) ==
    CASE t = "list_containers" -> "Error listing containers: "
      [] t = "get_container_info" -> "Error getting container info: "
      [] t \in {"get_compose_file", "get_compose_file_target"}
            -> "Error getting compose file: "
      [] t = "delete_file" -> "Error deleting file: "
      [] OTHER -> "Error: "

\* The message each catch block uses for a thrown value that is no Error.
CatchFallback(t) ==
    CASE t \in {"list_containers", "get_container_info", "get_compose_file",
                "get_compose_file_target"} -> "Unknown error"
      [] t = "grep" -> "Search failed"
      [] t = "find_files" -> "File search failed"
      [] OTHER -> "Unknown error occurred"

\* The mutant: only the handler's first call is inside its try block.
OnThrowFirstOnly(t, n) ==
    IF n = 1 THEN CatchAs(CatchPrefix(t), CatchFallback(t)) ELSE Escapes

\* Every awaited call of a handler is inside the handler's try block.
OnThrow(t, n) == CatchAs(CatchPrefix(t), CatchFallback(t))

ComposeCandidates == 7

NotFoundText == "Docker Compose file not found on host filesystem."

Call(kind, ok, neg, thr) == [call |-> kind, ok |-> ok, neg |-> neg, thr |-> thr]

\* The handlers, step by step.
Step(t, n) ==
    CASE t = "list_containers" ->
           Call("docker", Return("", "Containers:"),
                Return("", "No containers found."), OnThrow(t, n))
      [] t = "get_container_info" ->
           Call("docker", Return("", "Container Information:"), Never,
                OnThrow(t, n))
      [] t = "get_compose_file" ->
           \* fs.readFile of candidate n; the inner catch goes on to the next.
           Call("fs", Return("", "Docker Compose Configuration"),
                Return("", NotFoundText),
                IF n < ComposeCandidates THEN Goto(n + 1)
                ELSE Return("", NotFoundText))
      [] t = "get_compose_file_target" ->
           IF n <= ComposeCandidates
           THEN Call("fs", Return("", "Docker Compose Configuration"),
                     Goto(ComposeCandidates + 1), Goto(n + 1))
           ELSE \* container.inspect() for the not-found text
                Call("docker", Return("", NotFoundText), Never, OnThrow(t, n))
      [] t = "read_file" ->
           IF n = 1
           THEN Call("docker", Goto(2), Return("Error: File not found: ", "target_file"),
                     OnThrow(t, n))
           ELSE Call("docker", Return("", "numbered lines"),
                     Return("Error reading file: ", "stderr"), OnThrow(t, n))
      [] t = "write_file" ->
           IF n = 1 THEN Call("docker", Goto(2), Goto(2), OnThrow(t, n))
           ELSE IF n = 2 THEN Call("docker", Goto(3), Goto(3), OnThrow(t, n))
           ELSE Call("docker", Return("", "Created or Overwritten file"),
                     Return("Error writing file: ", "stderr"), OnThrow(t, n))
      [] t = "search_replace" ->
           IF n = 1
           THEN Call("check", Goto(2),
                     Return("Error: ", "old_string and new_string must be different"),
                     Never)
           ELSE IF n = 2
           THEN Call("docker", Goto(3), Return("Error: File not found: ", "file_path"),
                     OnThrow(t, n))
           ELSE IF n = 3
           THEN Call("docker", Goto(4), Return("Error reading file: ", "stderr"),
                     OnThrow(t, n))
           ELSE IF n = 4
           THEN Call("check", Goto(5),
                     Return("Error: ", "old_string is not unique or not found"),
                     Never)
           ELSE Call("docker", Return("", "Successfully replaced"),
                     Return("Error writing file: ", "stderr"), OnThrow(t, n))
      [] t = "list_dir" ->
           IF n = 1
           THEN Call("docker", Goto(2),
                     Return("Error: Directory not found: ", "target_directory"),
                     OnThrow(t, n))
           ELSE Call("docker", Return("", "listing"),
                     Return("Error listing directory: ", "stderr"), OnThrow(t, n))
      [] t = "grep" ->
           Call("docker", Return("", "matches"), Return("Error: ", "stderr"),
                OnThrow(t, n))
      [] t = "find_files" ->
           Call("docker", Return("", "files"), Return("Error: ", "stderr"),
                OnThrow(t, n))
      [] OTHER -> \* delete_file
           IF n = 1
           THEN Call("docker", Goto(2), Return("File does not exist: ", "target_file"),
                     OnThrow(t, n))
           ELSE IF n = 2
           THEN Call("docker", Goto(3),
                     Return("Error: Cannot delete directory with delete_file tool: ",
                            "target_file"),
                     OnThrow(t, n))
           ELSE Call("docker", Return("", "Successfully deleted file"),
                     Return("Error deleting file: ", "stderr"), OnThrow(t, n))

\* write_file runs mkdir -p only when the directory is neither . nor /.
FirstSteps(t) == IF t = "write_file" THEN {1, 2} ELSE {1}

\* What a Docker call or a host file read may throw.
Thrown == DaemonErrors \cup {NotRunningError, StreamError, NonError}

\* `const docker = new Docker()` and `const toolContext = { docker }`.
ServerStart == [docker |-> "new Docker()", toolContext |-> "{ docker }"]

\* The mutant: a handler keeps the tool it ran in the tool context.
ServerWriteLastTool(state, t) == [state EXCEPT !.toolContext = t]

\* What a handler assigns to the module-level variables: nothing.
ServerWrite(state, t) == state

NoCall ==
    /\ tool = "none" /\ tstep = 0 /\ tstatus = "idle" /\ tcontent = <<>>
    /\ thrown = "none" /\ firstStep = 0 /\ answers = <<>>

ToolIdle == NoCall /\ serverState = ServerStart /\ calls = 0


(***************************************************************************)
(* The file tools of the code-editing server: the text functions their     *)
(* handlers apply.  Text is a sequence of code points; MARKER stands for   *)
(* the seventeen characters EOF_MARKER_UNIQUE.                             *)
(***************************************************************************)
AMP == 38
LETTERB == 98
MARKER == 1000

Max(a, b) == IF a >= b THEN a ELSE b

\* content.split('\n'): the pieces between newlines, at least one.
RECURSIVE SplitLines(_)
SplitLines(d) ==
    IF \A i \in 1..Len(d) : d[i] # NL THEN <<d>>
    ELSE LET i == CHOOSE k \in 1..Len(d) :
                     d[k] = NL /\ \A j \in 1..(k - 1) : d[j] # NL
         IN  <<SubSeq(d, 1, i - 1)>> \o SplitLines(SubSeq(d, i + 1, Len(d)))

\* numberedLines.join('\n'), and a shell's lines put back together.
RECURSIVE JoinLines(_)
JoinLines(ls) ==
    IF ls = <<>> THEN <<>>
    ELSE IF Len(ls) = 1 THEN ls[1]
    ELSE ls[1] \o <<NL>> \o JoinLines(Tail(ls))

\* Array.prototype.slice(start, end) for integers: a negative index counts
\* from the end, both are clamped to the array.
JsIndex(n, i) == IF i < 0 THEN Max(n + i, 0) ELSE Min(i, n)

JsSlice(arr, start, end) ==
    LET from == JsIndex(Len(arr), start)
        to == JsIndex(Len(arr), end)
    IN  IF from < to THEN SubSeq(arr, from + 1, to) ELSE <<>>

Undefined == [def |-> FALSE, val |-> 0]
Num(n) == [def |-> TRUE, val |-> n]

\* The mutant: endLine taken as startLine + limit.
EndLineOffByOne(n, startLine, limit) ==
    IF limit.def THEN Min(n, startLine + limit.val) ELSE n

\* let endLine = lines.length; if (limit !== undefined) endLine = Math.min(...)
EndLine(n, startLine, limit) ==
    IF limit.def THEN Min(n, startLine + limit.val - 1) ELSE n

\* let startLine = 1; if (offset !== undefined) startLine = Math.max(1, offset)
StartLine(off) == IF off.def THEN Max(1, off.val) ELSE 1

\* read_file's numbered lines for the text cat printed: each is the line
\* number and the line's text.
NumberedLines(text, off, limit) ==
    LET lines == SplitLines(text)
        startLine == StartLine(off)
        endLine == EndLine(Len(lines), startLine, limit)
        selectedLines == JsSlice(lines, startLine - 1, endLine)
    IN  [index \in 1..Len(selectedLines) |->
            [lineNumber |-> startLine + index - 1, line |-> selectedLines[index]]]

\* s occurs in d at position i (1-based).
OccursAt(d, s, i) == i + Len(s) - 1 <= Len(d) /\ SubSeq(d, i, i + Len(s) - 1) = s

\* content.includes(old_string)
Includes(d, s) == s = <<>> \/ \E i \in 1..Len(d) : OccursAt(d, s, i)

FirstAt(d, s) ==
    IF s = <<>> THEN 1
    ELSE CHOOSE i \in 1..Len(d) : OccursAt(d, s, i) /\ \A j \in 1..(i - 1) : ~OccursAt(d, s, j)

\* content.split(old_string).length - 1: the occurrences met from the
\* left, none overlapping the one before.  The empty separator splits
\* between the characters: content.length pieces.
RECURSIVE SplitCount(_, _)
SplitCount(d, s) ==
    IF s = <<>> THEN Len(d) - 1
    ELSE IF ~Includes(d, s) THEN 0
    ELSE 1 + SplitCount(SubSeq(d, FirstAt(d, s) + Len(s), Len(d)), s)

\* The replacement text String.prototype.replace inserts for a string
\* pattern: $$ is a dollar sign, $& the matched text.
RECURSIVE ExpandReplacement(_, _)
ExpandReplacement(new, matched) ==
    IF new = <<>> THEN <<>>
    ELSE IF Len(new) >= 2 /\ new[1] = DOLLAR /\ new[2] = DOLLAR
         THEN <<DOLLAR>> \o ExpandReplacement(SubSeq(new, 3, Len(new)), matched)
    ELSE IF Len(new) >= 2 /\ new[1] = DOLLAR /\ new[2] = AMP
         THEN matched \o ExpandReplacement(SubSeq(new, 3, Len(new)), matched)
    ELSE <<Head(new)>> \o ExpandReplacement(Tail(new), matched)

\* content.replace(old_string, new_string)
ReplaceFirst(d, s, new) ==
    IF ~Includes(d, s) THEN d
    ELSE LET i == FirstAt(d, s)
         IN  SubSeq(d, 1, i - 1) \o ExpandReplacement(new, s)
                \o SubSeq(d, i + Len(s), Len(d))

\* x before every character of d and after the last.
RECURSIVE Interleave(_, _)
Interleave(d, x) ==
    IF d = <<>> THEN x ELSE x \o <<Head(d)>> \o Interleave(Tail(d), x)

\* content.replaceAll(old_string, new_string); the empty pattern matches
\* before every character and at the end.
RECURSIVE ReplaceEvery(_, _, _)
ReplaceEvery(d, s, new) ==
    IF s = <<>> THEN Interleave(d, ExpandReplacement(new, s))
    ELSE IF ~Includes(d, s) THEN d
    ELSE LET i == FirstAt(d, s)
         IN  SubSeq(d, 1, i - 1) \o ExpandReplacement(new, s)
                \o ReplaceEvery(SubSeq(d, i + Len(s), Len(d)), s, new)

\* The lines before the first line that is the marker alone.
RECURSIVE UntilMarker(_)
UntilMarker(ls) ==
    IF ls = <<>> \/ Head(ls) = <<MARKER>> THEN <<>>
    ELSE <<Head(ls)>> \o UntilMarker(Tail(ls))

RECURSIVE TerminateLines(_)
TerminateLines(ls) ==
    IF ls = <<>> THEN <<>> ELSE Head(ls) \o <<NL>> \o TerminateLines(Tail(ls))

\* cat > path << 'EOF_MARKER_UNIQUE' followed by the body and the marker,
\* as the shell runs it: the here-document is the lines up to the first
\* marker line, each ended by a newline; lines left over after that marker
\* are run as commands, the last of them the template's own marker line,
\* which is no command (status 127).
Heredoc(body) ==
    LET lines == SplitLines(body)
        doc == UntilMarker(lines)
    IN  [data |-> TerminateLines(doc),
         exitCode |-> IF Len(doc) = Len(lines) THEN 0 ELSE 127]


(***************************************************************************)
(* The file tools: parameters, commands, what a handler does between two   *)
(* awaited commands.                                                       *)
(***************************************************************************)
FileTools == {"read_file", "write_file", "search_replace", "list_dir", "delete_file"}

FileChars == {LETTER, NL}

AbsentPath == [kind |-> "absent", data |-> <<>>]
Directory == [kind |-> "dir", data |-> <<>>]
RegularFile(d) == [kind |-> "file", data |-> d]

FsStates ==
    {AbsentPath, Directory} \cup {RegularFile(d) : d \in SeqsUpTo(FileChars, MaxFileLen)}

NoArgs ==
    [offset |-> Undefined, limit |-> Undefined, contents |-> <<>>,
     old |-> <<>>, new |-> <<>>, replaceAll |-> FALSE, nested |-> FALSE]

Offsets == {Undefined, Num(-1), Num(0), Num(1), Num(2), Num(3)}
Limits == {Undefined, Num(-1), Num(0), Num(1), Num(2)}
Contents == SeqsUpTo({LETTER, NL, MARKER}, MaxFileLen)
OldStrings == {<<LETTER>>, <<LETTER, LETTER>>, <<NL>>, <<>>}
NewStrings == {<<LETTER>>, <<LETTERB>>, <<>>, <<DOLLAR, AMP>>}

\* The parameters a client may pass to tool t.
ArgsOf(t) ==
    CASE t = "read_file" ->
           {[NoArgs EXCEPT !.offset = o, !.limit = l] : o \in Offsets, l \in Limits}
      [] t = "write_file" ->
           {[NoArgs EXCEPT !.contents = c, !.nested = n] :
               c \in Contents, n \in BOOLEAN}
      [] t = "search_replace" ->
           {[NoArgs EXCEPT !.old = o, !.new = n, !.replaceAll = r] :
               o \in OldStrings, n \in NewStrings, r \in BOOLEAN}
      [] OTHER -> {NoArgs}

NoCommand == [name |-> "none", body |-> <<>>]
Command(name) == [name |-> name, body |-> <<>>]

\* cat > path << 'EOF_MARKER_UNIQUE' \n body \n EOF_MARKER_UNIQUE
WriteCommand(body) == [name |-> "write", body |-> body]

NoResult == [word |-> "", data |-> <<>>, exitCode |-> 0]

\* What a command does to the path and what executeDockerCommand returns
\* for it: stdout.trim() as a word for the tests, stdout as data for cat
\* and ls, and the exit code.  listing is what ls finds in the directory.
RunCommand(c, path, listing) ==
    CASE c.name = "test -f" ->
           [fs |-> path, exitCode |-> 0, data |-> <<>>,
            word |-> IF path.kind = "file" THEN "exists" ELSE "not found"]
      [] c.name = "test -d exists" ->
           [fs |-> path, exitCode |-> 0, data |-> <<>>,
            word |-> IF path.kind = "dir" THEN "exists" ELSE "not found"]
      [] c.name = "test -d directory" ->
           [fs |-> path, exitCode |-> 0, data |-> <<>>,
            word |-> IF path.kind = "dir" THEN "directory" ELSE "file"]
      [] c.name = "cat" ->
           [fs |-> path, word |-> "",
            data |-> IF path.kind = "file" THEN path.data ELSE <<>>,
            exitCode |-> IF path.kind = "file" THEN 0 ELSE 1]
      [] c.name = "ls" ->
           [fs |-> path, word |-> "",
            data |-> IF path.kind = "dir" THEN listing ELSE <<>>,
            exitCode |-> IF path.kind = "absent" THEN 2 ELSE 0]
      [] c.name = "rm" ->
           [fs |-> IF path.kind = "file" THEN AbsentPath ELSE path,
            word |-> "", data |-> <<>>,
            exitCode |-> IF path.kind = "file" THEN 0 ELSE 1]
      [] c.name = "write" ->
           IF path.kind = "dir"
           THEN [fs |-> path, word |-> "", data |-> <<>>, exitCode |-> 1]
           ELSE [fs |-> RegularFile(Heredoc(c.body).data), word |-> "",
                 data |-> <<>>, exitCode |-> Heredoc(c.body).exitCode]
      [] OTHER -> \* mkdir -p of the parent directory
           [fs |-> path, word |-> "", data |-> <<>>, exitCode |-> 0]

NoLocals == [exists |-> FALSE, content |-> <<>>]

NoText == [kind |-> "none", lines |-> <<>>, count |-> 0, action |-> ""]
Text(kind) == [NoText EXCEPT !.kind = kind]

Run(pc, c, loc) == [do |-> "run", pc |-> pc, cmd |-> c, loc |-> loc, text |-> NoText]
Answer(text) ==
    [do |-> "return", pc |-> "done", cmd |-> NoCommand, loc |-> NoLocals, text |-> text]

\* The handler from its start to its first awaited command.
Enter(t, args) ==
    CASE t = "search_replace" ->
           IF args.old = args.new THEN Answer(Text("must be different"))
           ELSE Run("check", Command("test -f"), NoLocals)
      [] t = "write_file" ->
           IF args.nested THEN Run("mkdir", Command("mkdir -p"), NoLocals)
           ELSE Run("check", Command("test -f"), NoLocals)
      [] t = "list_dir" -> Run("check", Command("test -d exists"), NoLocals)
      [] OTHER -> Run("check", Command("test -f"), NoLocals)

\* read_file after an awaited command returned res.
ReadFileStep(args, pc, res, loc) ==
    IF pc = "check"
    THEN IF res.word # "exists" THEN Answer(Text("File not found"))
         ELSE Run("cat", Command("cat"), loc)
    ELSE IF res.exitCode # 0 THEN Answer(Text("Error reading file"))
    ELSE IF Len(res.data) = 0 THEN Answer(Text("File is empty."))
    ELSE Answer([Text("numbered lines") EXCEPT
                    !.lines = NumberedLines(res.data, args.offset, args.limit)])

\* write_file after an awaited command returned res.
WriteFileStep(args, pc, res, loc) ==
    IF pc = "mkdir" THEN Run("check", Command("test -f"), loc)
    ELSE IF pc = "check"
    THEN Run("write", WriteCommand(args.contents),
             [loc EXCEPT !.exists = (res.word = "exists")])
    ELSE IF res.exitCode # 0 THEN Answer(Text("Error writing file"))
    ELSE Answer([Text("written") EXCEPT
                    !.action = IF loc.exists THEN "Overwritten" ELSE "Created",
                    !.count = Len(args.contents)])

\* The mutant: the modified content is written back without the
\* `content.includes(old_string)` check.
SearchReplaceStepNoFoundCheck(args, pc, res, loc) ==
    IF pc = "check"
    THEN IF res.word # "exists" THEN Answer(Text("File not found"))
         ELSE Run("cat", Command("cat"), loc)
    ELSE IF pc = "cat"
    THEN IF res.exitCode # 0 THEN Answer(Text("Error reading file"))
         ELSE IF ~args.replaceAll /\ SplitCount(res.data, args.old) > 1
         THEN Answer(Text("is not unique"))
         ELSE Run("write",
                  WriteCommand(IF args.replaceAll
                               THEN ReplaceEvery(res.data, args.old, args.new)
                               ELSE ReplaceFirst(res.data, args.old, args.new)),
                  [loc EXCEPT !.content = res.data])
    ELSE IF res.exitCode # 0 THEN Answer(Text("Error writing file"))
    ELSE Answer([Text("replaced") EXCEPT
                    !.count = IF args.replaceAll
                              THEN SplitCount(loc.content, args.old) ELSE 1])

\* search_replace after an awaited command returned res.
SearchReplaceStep(args, pc, res, loc) ==
    IF pc = "check"
    THEN IF res.word # "exists" THEN Answer(Text("File not found"))
         ELSE Run("cat", Command("cat"), loc)
    ELSE IF pc = "cat"
    THEN IF res.exitCode # 0 THEN Answer(Text("Error reading file"))
         ELSE IF ~args.replaceAll /\ SplitCount(res.data, args.old) > 1
         THEN Answer(Text("is not unique"))
         ELSE IF ~Includes(res.data, args.old) THEN Answer(Text("not found in file"))
         ELSE Run("write",
                  WriteCommand(IF args.replaceAll
                               THEN ReplaceEvery(res.data, args.old, args.new)
                               ELSE ReplaceFirst(res.data, args.old, args.new)),
                  [loc EXCEPT !.content = res.data])
    ELSE IF res.exitCode # 0 THEN Answer(Text("Error writing file"))
    ELSE Answer([Text("replaced") EXCEPT
                    !.count = IF args.replaceAll
                              THEN SplitCount(loc.content, args.old) ELSE 1])

\* list_dir after an awaited command returned res.
ListDirStep(args, pc, res, loc) ==
    IF pc = "check"
    THEN IF res.word # "exists" THEN Answer(Text("Directory not found"))
         ELSE Run("ls", Command("ls"), loc)
    ELSE IF res.exitCode # 0 THEN Answer(Text("Error listing directory"))
    ELSE IF res.data = <<>> THEN Answer(Text("Directory is empty."))
    ELSE Answer([Text("listing") EXCEPT !.lines = <<res.data>>])

\* The mutant: the answer of the directory check is not looked at.
DeleteFileStepNoTypeCheck(args, pc, res, loc) ==
    IF pc = "check"
    THEN Run("type", Command("test -d directory"), loc)
    ELSE IF pc = "type"
    THEN Run("rm", Command("rm"), loc)
    ELSE IF res.exitCode # 0 THEN Answer(Text("Error deleting file"))
    ELSE Answer(Text("Successfully deleted file"))

\* delete_file after an awaited command returned res.
DeleteFileStep(args, pc, res, loc) ==
    IF pc = "check"
    THEN IF res.word # "exists" THEN Answer(Text("File does not exist"))
         ELSE Run("type", Command("test -d directory"), loc)
    ELSE IF pc = "type"
    THEN IF res.word = "directory" THEN Answer(Text("Cannot delete directory"))
         ELSE Run("rm", Command("rm"), loc)
    ELSE IF res.exitCode # 0 THEN Answer(Text("Error deleting file"))
    ELSE Answer(Text("Successfully deleted file"))

AfterCommand(t, args, pc, res, loc) ==
    CASE t = "read_file" -> ReadFileStep(args, pc, res, loc)
      [] t = "write_file" -> WriteFileStep(args, pc, res, loc)
      [] t = "search_replace" -> SearchReplaceStep(args, pc, res, loc)
      [] t = "list_dir" -> ListDirStep(args, pc, res, loc)
      [] OTHER -> DeleteFileStep(args, pc, res, loc)

\* The mutant: the handler goes on while the command's stream is open.
AwaitOverEarly(phase) == phase \in {"running", "read"}

\* `await executeDockerCommand(...)` is over once the stream has ended and
\* exec.inspect() has answered.
AwaitOver(phase) == phase = "read"

FileIdle ==
    /\ ftool = "none" /\ fargs = NoArgs /\ target = AbsentPath /\ target0 = AbsentPath
    /\ fsTouched = FALSE /\ fpc = "idle" /\ cphase = "none" /\ fcmd = NoCommand
    /\ running = 0 /\ issued = <<>> /\ exitsRead = 0 /\ cres = NoResult
    /\ flocal = NoLocals /\ fstatus = "idle" /\ fresult = NoText

(***************************************************************************)
(* get_compose_file and list_containers: the host's files, the daemon's    *)
(* containers, and what the handlers make of them.                         *)
(***************************************************************************)
DefaultComposeFile == "docker/compose.yaml"

DefaultPaths ==
    <<"docker/compose.yaml", "docker/compose.yml", "docker-compose.yaml",
      "docker-compose.yml", "compose.yaml", "compose.yml">>

\* compose_file as a client may give it: left out, or a path of its own.
ComposeFiles == {DefaultComposeFile, "custom.yaml"}

HostPaths == {DefaultPaths[i] : i \in 1..Len(DefaultPaths)} \cup ComposeFiles

\* const possiblePaths = [compose_file, 'docker/compose.yaml', ...]
PossiblePaths(compose_file) == <<compose_file>> \o DefaultPaths

\* What fs.readFile(path, 'utf8') gives for a file that can be read.
FileText(files, path) == IF files[path] = "text" THEN <<path>> ELSE <<>>

NoHostText == [kind |-> "none", path |-> "", content |-> <<>>, entries |-> <<>>]

\* The handler's code after the loop: `if (!composeContent)` and the output.
ComposeAnswer(found, text) ==
    IF text = <<>>
    THEN [NoHostText EXCEPT !.kind = "Docker Compose file not found"]
    ELSE [NoHostText EXCEPT !.kind = "Docker Compose Configuration",
                            !.path = found, !.content = text]

AllParams == {"omitted", "true", "false"}

\* The mutant: the daemon is always asked for all containers.
AllFlagAlways(param) == TRUE

\* all: z.boolean().optional().default(false)
AllFlag(param) == param = "true"

ContainerIds == {[short |-> "0123456789ab", rest |-> "cd"],
                 [short |-> "ba9876543210", rest |-> "ef"]}

Containers == {[Id |-> i, State |-> st] : i \in ContainerIds, st \in {"running", "exited"}}

\* The daemon's answer to GET /containers/json?all=...
DaemonList(cs, all) ==
    LET Shown(c) == all \/ c.State = "running" IN SelectSeq(cs, Shown)

\* One entry of the output: ID is container.Id.substring(0, 12).
ContainerEntry(c) == [ID |-> c.Id.short, State |-> c.State]

\* The handler's code after `await docker.listContainers({ all })`.
ListAnswer(containers, all) ==
    IF Len(containers) = 0
    THEN [NoHostText EXCEPT !.kind =
            IF all THEN "No containers found."
            ELSE "No running containers found. Use all=true to see all containers."]
    ELSE [NoHostText EXCEPT
            !.kind = IF all THEN "All Containers:" ELSE "Running Containers:",
            !.entries = [i \in 1..Len(containers) |-> ContainerEntry(containers[i])]]

NoFiles == [p \in HostPaths |-> "unreadable"]

HostIdle ==
    /\ htool = "none" /\ composeFile = DefaultComposeFile /\ hostFiles = NoFiles
    /\ ci = 0 /\ foundPath = "" /\ composeContent = <<>>
    /\ allParam = "omitted" /\ daemon = <<>> /\ queried = "none"
    /\ hstatus = "idle" /\ hresult = NoHostText

(***************************************************************************)
(* The HTTP server's bearer-token check.  A string is a sequence of        *)
(* symbols; the symbol "Bearer " stands for those seven characters.        *)
(***************************************************************************)
Bearer == "Bearer "

Symbols == {Bearer, "x", "y"}

Unset == [set |-> FALSE, value |-> <<>>]
EnvValue(v) == [set |-> TRUE, value |-> v]
Absent == [present |-> FALSE, value |-> <<>>]
HeaderValue(v) == [present |-> TRUE, value |-> v]

\* JavaScript truthiness of an optional string: undefined and '' are falsy.
Truthy(defined, v) == defined /\ v # <<>>

\* The mutant: the header is compared as it came.
ExtractTokenNoStrip(v) == v

\* authHeader.startsWith('Bearer ') ? authHeader.substring(7) : authHeader
ExtractToken(v) == IF v # <<>> /\ Head(v) = Bearer THEN Tail(v) ELSE v

\* The mutant: a request without a header is let through.
AuthDecisionHeaderOptional(env, header) ==
    IF ~Truthy(env.set, env.value) THEN "next"
    ELSE IF ~Truthy(header.present, header.value) THEN "next"
    ELSE IF ExtractToken(header.value) # env.value THEN "403"
    ELSE "next"

\* The mutant: the check is made even when no token is configured.
AuthDecisionAlwaysChecked(env, header) ==
    IF ~Truthy(header.present, header.value) THEN "401"
    ELSE IF ExtractToken(header.value) # env.value THEN "403"
    ELSE "next"

\* authMiddleware's three ways out.
AuthDecision(env, header) ==
    IF ~Truthy(env.set, env.value) THEN "next"
    ELSE IF ~Truthy(header.present, header.value) THEN "401"
    ELSE IF ExtractToken(header.value) # env.value THEN "403"
    ELSE "next"

\* The mutant: the catch block answers whatever res.headersSent is.
CatchAnswersAlways(sent) == TRUE

\* `if (!res.headersSent) res.status(500).json(...)` in the catch block.
CatchAnswers(sent) == ~sent

\* The mutant: app.use(authMiddleware) in front of every route.
AuthMountedEverywhere(m) == TRUE

\* authMiddleware is mounted on app.post('/mcp', authMiddleware, ...) only.
AuthMounted(m) == m = "POST"

NothingBuilt == [servers |-> 0, transports |-> 0]

\* A request as Express hands it to the first handler.
LifecycleStart ==
    /\ built = NothingBuilt /\ resStarts = 0 /\ threw = "none"
    /\ sentBefore = FALSE /\ closeListener = FALSE /\ resClosed = FALSE
    /\ transportClosed = FALSE /\ serverClosed = FALSE

HttpIdle ==
    /\ authToken = Unset /\ method = "none" /\ authHeader = Absent
    /\ rpc = "idle" /\ resStatus = 0 /\ resCode = 0 /\ headersSent = FALSE
    /\ nextCalls = 0 /\ authResponded = FALSE /\ serverCreated = FALSE
    /\ transportCreated = FALSE /\ toolRan = FALSE
    /\ LifecycleStart

(***************************************************************************)
(* The demultiplexer run on a drawn input.                                 *)
(***************************************************************************)
ParseIdle ==
    /\ frames = <<>> /\ trailing = <<>> /\ data = <<>>
    /\ offset = 0 /\ stdout = <<>> /\ stderr = <<>> /\ ppc = "idle"

InitParse ==
    /\ ShellIdle /\ ExecIdle /\ ToolIdle /\ HttpIdle /\ FileIdle /\ HostIdle
    /\ frames \in SeqsUpTo(Frames, MaxFrames)
    /\ trailing \in Trailings
    /\ data = EncodeFrames(frames) \o trailing
    /\ offset = 0 /\ stdout = <<>> /\ stderr = <<>>
    /\ ppc = "loop"

\* One iteration of the while loop (or leaving it).
ParseStep ==
    /\ ppc = "loop"
    /\ LET st == ParseIter(data, [offset |-> offset, stdout |-> stdout,
                                  stderr |-> stderr, done |-> FALSE])
       IN  /\ offset' = st.offset
           /\ stdout' = st.stdout
           /\ stderr' = st.stderr
           /\ ppc' = IF st.done THEN "done" ELSE "loop"
    /\ UNCHANGED <<frames, trailing, data>>
    /\ UNCHANGED <<shellVars, execVars, toolVars, httpVars, fileVars, hostVars>>

NextParse == ParseStep

SpecParse == InitParse /\ [][NextParse]_vars

\* The loop is synchronous code: it keeps running until it is left.
SpecParseLive == SpecParse /\ WF_vars(NextParse)

(***************************************************************************)
(* Claims about the demultiplexer.                                         *)
(***************************************************************************)
RECURSIVE Payloads(_, _)
\* The payload bytes of the frames of fs tagged t, concatenated in order.
Payloads(fs, t) ==
    IF fs = <<>> THEN <<>>
    ELSE (IF Head(fs).tag = t THEN Head(fs).payload ELSE <<>>)
         \o Payloads(Tail(fs), t)

IsKnownTag(f) == f.tag \in {1, 2}

WellFormedInput ==
    /\ trailing = <<>>
    /\ \A i \in 1..Len(frames) : IsKnownTag(frames[i])

\* C1: for an input that is a concatenation of well-formed frames tagged 1
\* or 2, the returned stdout is the text of the tag-1 payloads concatenated
\* in frame order and the returned stderr the text of the tag-2 payloads
\* concatenated in frame order.
C1_StreamsArePayloadConcatenation ==
    (ppc = "done" /\ WellFormedInput) =>
        /\ stdout = Utf8Decode(Payloads(frames, 1))
        /\ stderr = Utf8Decode(Payloads(frames, 2))

\* C2: truncated trailing bytes contribute nothing: the result for the
\* frames followed by a truncated tail is the result for the frames alone.
C2_TruncatedTailIgnored ==
    ppc = "done" =>
        [stdout |-> stdout, stderr |-> stderr]
            = parseDockerStream(EncodeFrames(frames))

C2_Witness ==
    /\ ppc = "done"
    /\ Len(trailing) > 8
    /\ frames # <<>>
    /\ stdout # <<>>

\* C3: a complete frame whose tag is neither 1 nor 2 adds nothing, and the
\* frames after it are accumulated as if it were absent.
C3_UnknownTagDropped ==
    ppc = "done" =>
        [stdout |-> stdout, stderr |-> stderr]
            = parseDockerStream(EncodeFrames(SelectSeq(frames, IsKnownTag))
                                \o trailing)

C3_Witness ==
    /\ ppc = "done"
    /\ Len(frames) >= 2
    /\ ~IsKnownTag(frames[1]) /\ frames[1].payload # <<>>
    /\ IsKnownTag(frames[2]) /\ frames[2].payload # <<>>
    /\ stdout \o stderr # <<>>

\* The indices (1-based) of the bytes one pass of the loop reads at offset
\* off: the tag and the length once the header check passed, the payload
\* once the length check passed.
IterationReads(d, off) ==
    IF ~(off < Len(d)) \/ ~HeaderFits(d, off) THEN {}
    ELSE LET size == readUInt32BE(d, off + 4)
         IN  {off + 1} \cup ((off + 5)..(off + 8))
                \cup (IF PayloadFits(d, off, size)
                      THEN (off + 9)..(off + 8 + size) ELSE {})

\* C29: parseDockerStream terminates on every input: each pass of the loop
\* leaves it or moves offset on by at least 8, offset never exceeds the
\* input's length, and every byte read lies inside the input.
C29_Terminates ==
    /\ [](offset <= Len(data))
    /\ [](ppc = "loop" => IterationReads(data, offset) \subseteq 1..Len(data))
    /\ [][ppc = "loop" => (ppc' = "done" \/ offset' >= offset + 8)]_vars
    /\ <>(ppc = "done")

\* Two frames, one of them empty, were consumed and the loop was left at a
\* truncated tail.
C29_Witness ==
    /\ ppc = "done"
    /\ Len(frames) = 2 /\ frames[1].payload = <<>>
    /\ trailing # <<>>
    /\ offset = Len(data) - Len(trailing)

(***************************************************************************)
(* The copies in the Docker code editing server: its parseDockerStream and *)
(* the Docker calls of its executeDockerCommand, set against those of the  *)
(* exec tool module.                                                       *)
(***************************************************************************)
\* The mutant: `else` in place of `else if (streamType === 2)` in the copy.
EditorParseIterElse(d, st) ==
    IF ~(st.offset < Len(d)) THEN [st EXCEPT !.done = TRUE]
    ELSE IF st.offset + 8 > Len(d) THEN [st EXCEPT !.done = TRUE]
    ELSE LET streamType == d[st.offset + 1]
             size == d[st.offset + 5] * 16777216 + d[st.offset + 6] * 65536
                        + d[st.offset + 7] * 256 + d[st.offset + 8]
         IN  IF st.offset + 8 + size > Len(d) THEN [st EXCEPT !.done = TRUE]
             ELSE LET chunk == Utf8Decode(Slice(d, st.offset + 8, st.offset + 8 + size))
                  IN  [st EXCEPT
                          !.stdout = IF streamType = 1 THEN @ \o chunk ELSE @,
                          !.stderr = IF streamType # 1 THEN @ \o chunk ELSE @,
                          !.offset = @ + 8 + size]

\* One pass through the loop of the code editing server's parseDockerStream.
EditorParseIter(d, st) ==
    IF ~(st.offset < Len(d)) THEN [st EXCEPT !.done = TRUE]
    ELSE IF st.offset + 8 > Len(d) THEN [st EXCEPT !.done = TRUE]
    ELSE LET streamType == d[st.offset + 1]
             size == d[st.offset + 5] * 16777216 + d[st.offset + 6] * 65536
                        + d[st.offset + 7] * 256 + d[st.offset + 8]
         IN  IF st.offset + 8 + size > Len(d) THEN [st EXCEPT !.done = TRUE]
             ELSE LET chunk == Utf8Decode(Slice(d, st.offset + 8, st.offset + 8 + size))
                  IN  [st EXCEPT
                          !.stdout = IF streamType = 1 THEN @ \o chunk ELSE @,
                          !.stderr = IF streamType = 2 THEN @ \o chunk ELSE @,
                          !.offset = @ + 8 + size]

RECURSIVE EditorParseRun(_, _)
EditorParseRun(d, st) ==
    IF st.done THEN st ELSE EditorParseRun(d, EditorParseIter(d, st))

\* The code editing server's parseDockerStream(data).
EditorParseDockerStream(d) ==
    LET st == EditorParseRun(d, [offset |-> 0, stdout |-> <<>>, stderr |-> <<>>,
                                 done |-> FALSE])
    IN  [stdout |-> st.stdout, stderr |-> st.stderr]

\* The Docker calls the exec tool module's executeDockerCommand makes, in
\* order, for a container that is running or not, with or without stdin,
\* when its failAt-th awaited call throws (0: none does).  Each call is
\* listed with the stdin flag it passes.
ExecToolDockerCalls(isRunning, withStdin, failAt) ==
    LET inspect == <<[call |-> "container.inspect", stdin |-> FALSE]>>
        create == <<[call |-> "container.exec", stdin |-> withStdin]>>
        start == <<[call |-> "exec.start", stdin |-> withStdin]>>
        pipe == IF withStdin
                THEN <<[call |-> "stdinStream.pipe", stdin |-> TRUE]>> ELSE <<>>
        collect == <<[call |-> "stream.on", stdin |-> FALSE]>>
        code == <<[call |-> "exec.inspect", stdin |-> FALSE]>>
    IN  IF failAt = 1 \/ ~isRunning THEN inspect
        ELSE IF failAt = 2 THEN inspect \o create
        ELSE IF failAt = 3 THEN inspect \o create \o start
        ELSE IF failAt = 4 THEN inspect \o create \o start \o pipe \o collect
        ELSE inspect \o create \o start \o pipe \o collect \o code

\* The same for the code editing server's executeDockerCommand.
EditorDockerCalls(isRunning, withStdin, failAt) ==
    LET inspect == <<[call |-> "container.inspect", stdin |-> FALSE]>>
        create == <<[call |-> "container.exec", stdin |-> withStdin]>>
        start == <<[call |-> "exec.start", stdin |-> withStdin]>>
        pipe == IF withStdin
                THEN <<[call |-> "stdinStream.pipe", stdin |-> TRUE]>> ELSE <<>>
        collect == <<[call |-> "stream.on", stdin |-> FALSE]>>
        code == <<[call |-> "exec.inspect", stdin |-> FALSE]>>
    IN  IF failAt = 1 \/ ~isRunning THEN inspect
        ELSE IF failAt = 2 THEN inspect \o create
        ELSE IF failAt = 3 THEN inspect \o create \o start
        ELSE IF failAt = 4 THEN inspect \o create \o start \o pipe \o collect
        ELSE inspect \o create \o start \o pipe \o collect \o code

\* C30: on every input the parseDockerStream of the exec tool module and
\* the one of the code editing server return the same stdout and the same
\* stderr, and the two executeDockerCommand copies make the same Docker
\* calls in the same order for the same arguments.
C30_CopiesAgree ==
    /\ parseDockerStream(data) = EditorParseDockerStream(data)
    /\ ppc = "done" =>
          [stdout |-> stdout, stderr |-> stderr] = EditorParseDockerStream(data)
    /\ \A isRunning \in BOOLEAN, withStdin \in BOOLEAN, failAt \in 0..5 :
          ExecToolDockerCalls(isRunning, withStdin, failAt)
              = EditorDockerCalls(isRunning, withStdin, failAt)

\* An input with a frame of an unknown tag between a stdout and a stderr
\* frame, and a truncated tail, demultiplexed by both copies.
C30_Witness ==
    /\ ppc = "done"
    /\ \E i, j \in 1..Len(frames) :
          /\ frames[i].tag = 3 /\ frames[i].payload # <<>>
          /\ frames[j].tag = 2 /\ frames[j].payload # <<>>
    /\ Len(trailing) > 8
    /\ EditorParseDockerStream(data).stderr # <<>>
    /\ EditorParseDockerStream(data).stderr = stderr

(***************************************************************************)
(* escapeShellArg applied to a drawn argument and read back by the shell.  *)
(***************************************************************************)
InitShell ==
    /\ ParseIdle /\ ExecIdle /\ ToolIdle /\ HttpIdle /\ FileIdle /\ HostIdle
    /\ arg \in SeqsUpTo(Chars, MaxArgLen)
    /\ word = <<>> /\ shres = NoShellResult
    /\ spc = "start"

\* A handler builds a command with escapeShellArg(arg).
EscapeArg ==
    /\ spc = "start"
    /\ word' = escapeShellArg(arg)
    /\ spc' = "escaped"
    /\ UNCHANGED <<arg, shres>>
    /\ UNCHANGED <<parseVars, execVars, toolVars, httpVars, fileVars, hostVars>>

\* /bin/bash -c reads the word.
ShellRead ==
    /\ spc = "escaped"
    /\ shres' = ShellEval(word)
    /\ spc' = "done"
    /\ UNCHANGED <<arg, word>>
    /\ UNCHANGED <<parseVars, execVars, toolVars, httpVars, fileVars, hostVars>>

NextShell == EscapeArg \/ ShellRead

SpecShell == InitShell /\ [][NextShell]_vars

\* C4: the word escapeShellArg(s) is read by the shell as exactly one
\* argument equal to s, with no expansion or substitution and no open quote.
C4_EscapeRoundTrip ==
    spc = "done" =>
        shres = [words |-> <<arg>>, expanded |-> FALSE, error |-> FALSE]

C4_Witness ==
    /\ spc = "done"
    /\ \E i, j, k \in 1..Len(arg) :
          arg[i] = SQ /\ arg[j] = DOLLAR /\ arg[k] \in {BS, NL, SP}
    /\ shres.words = <<arg>>

(***************************************************************************)
(* One call of the exec tool.  The handler has called                      *)
(* executeDockerCommand (which has issued container.inspect()) and armed   *)
(* the timer; both are pending.                                            *)
(***************************************************************************)
ExecCalled ==
    /\ timeoutParam \in TimeoutParams
    /\ containerRunning \in BOOLEAN
    /\ streamData \in StreamChoices
    /\ elapsed = 0 /\ timerFired = FALSE
    /\ cpc = "inspect" /\ execCreated = FALSE /\ chunks = <<>>
    /\ cmdOutcome = Unsettled /\ hpc = "pending" /\ content = <<>>
    /\ cmdFirst = FALSE

InitExec ==
    ParseIdle /\ ShellIdle /\ ToolIdle /\ HttpIdle /\ FileIdle /\ HostIdle /\ ExecCalled

\* The timer is due and its callback has not run yet.  Node runs due timers
\* before it delivers further I/O completions.
TimerDue == ~timerFired /\ elapsed >= Timeout(timeoutParam)

CmdSettled == cmdOutcome.state # "pending"

\* A second passes.
Tick ==
    /\ hpc # "idle"
    /\ elapsed < MaxTime
    /\ ~TimerDue
    /\ ~(timerFired /\ CmdSettled)
    /\ elapsed' = elapsed + 1
    /\ UNCHANGED <<timeoutParam, containerRunning, streamData, timerFired, cpc,
                   execCreated, chunks, cmdOutcome, hpc, content, cmdFirst>>
    /\ UNCHANGED <<parseVars, shellVars, toolVars, httpVars, fileVars, hostVars>>

\* setTimeout's callback: reject(new Error('Command timeout')).
TimerFire ==
    /\ hpc # "idle"
    /\ TimerDue
    /\ timerFired' = TRUE
    /\ IF "timer" \in RaceInputs
       THEN /\ content' = Race(content, Rejected(TimeoutError))
            /\ hpc' = "returned"
       ELSE UNCHANGED <<content, hpc>>
    /\ UNCHANGED <<timeoutParam, containerRunning, streamData, elapsed, cpc,
                   execCreated, chunks, cmdOutcome, cmdFirst>>
    /\ UNCHANGED <<parseVars, shellVars, toolVars, httpVars, fileVars, hostVars>>

\* executeDockerCommand settles: its promise is one of the two raced.
Settle(outcome) ==
    /\ cmdOutcome' = outcome
    /\ IF "command" \in RaceInputs
       THEN /\ content' = Race(content, outcome)
            /\ hpc' = "returned"
       ELSE UNCHANGED <<content, hpc>>
    /\ cmdFirst' = ~timerFired

\* A Docker call of executeDockerCommand fails: the catch block rethrows.
CmdFail(stage, messages) ==
    /\ cpc = stage
    /\ ~TimerDue
    /\ \E m \in messages : Settle(Rejected(m))
    /\ cpc' = "rejected"
    /\ UNCHANGED <<timeoutParam, containerRunning, streamData, elapsed,
                   timerFired, execCreated, chunks>>
    /\ UNCHANGED <<parseVars, shellVars, toolVars, httpVars, fileVars, hostVars>>

\* The mutant: info.State.Running is not looked at.
InspectContainerNoCheck ==
    /\ cpc = "inspect"
    /\ ~TimerDue
    /\ cpc' = "create"
    /\ UNCHANGED <<timeoutParam, containerRunning, streamData, elapsed,
                   timerFired, execCreated, chunks, cmdOutcome, hpc, content,
                   cmdFirst>>
    /\ UNCHANGED <<parseVars, shellVars, toolVars, httpVars, fileVars, hostVars>>

\* container.inspect() answers; `if (!info.State.Running) throw`.
InspectContainer ==
    /\ cpc = "inspect"
    /\ ~TimerDue
    /\ IF containerRunning
       THEN /\ cpc' = "create"
            /\ UNCHANGED <<cmdOutcome, content, hpc, cmdFirst>>
       ELSE /\ cpc' = "rejected"
            /\ Settle(Rejected(NotRunningError))
    /\ UNCHANGED <<timeoutParam, containerRunning, streamData, elapsed,
                   timerFired, execCreated, chunks>>
    /\ UNCHANGED <<parseVars, shellVars, toolVars, httpVars, fileVars, hostVars>>

InspectContainerFails == CmdFail("inspect", DaemonErrors)

\* container.exec({...}) answers.
CreateExec ==
    /\ cpc = "create"
    /\ ~TimerDue
    /\ cpc' = "start"
    /\ execCreated' = TRUE
    /\ UNCHANGED <<timeoutParam, containerRunning, streamData, elapsed,
                   timerFired, chunks, cmdOutcome, hpc, content, cmdFirst>>
    /\ UNCHANGED <<parseVars, shellVars, toolVars, httpVars, fileVars, hostVars>>

CreateExecFails == CmdFail("create", DaemonErrors)

\* exec.start({...}) answers with the stream; the listeners are attached.
StartExec ==
    /\ cpc = "start"
    /\ ~TimerDue
    /\ cpc' = "stream"
    /\ UNCHANGED <<timeoutParam, containerRunning, streamData, elapsed,
                   timerFired, execCreated, chunks, cmdOutcome, hpc, content,
                   cmdFirst>>
    /\ UNCHANGED <<parseVars, shellVars, toolVars, httpVars, fileVars, hostVars>>

StartExecFails == CmdFail("start", DaemonErrors)

Delivered == Len(Concat(chunks))

\* stream 'data': chunks.push(chunk).  The stream cuts its bytes anywhere.
StreamChunk ==
    /\ cpc = "stream"
    /\ ~TimerDue
    /\ Len(chunks) < MaxChunks
    /\ \E n \in 1..(Len(streamData) - Delivered) :
          /\ Len(chunks) + 1 = MaxChunks => Delivered + n = Len(streamData)
          /\ chunks' = Append(chunks, SubSeq(streamData, Delivered + 1, Delivered + n))
    /\ UNCHANGED <<timeoutParam, containerRunning, streamData, elapsed,
                   timerFired, cpc, execCreated, cmdOutcome, hpc, content,
                   cmdFirst>>
    /\ UNCHANGED <<parseVars, shellVars, toolVars, httpVars, fileVars, hostVars>>

\* The mutant: exec.inspect() is issued without awaiting the stream's 'end'.
StreamEndEarly ==
    /\ cpc = "stream"
    /\ ~TimerDue
    /\ cpc' = "inspectExec"
    /\ UNCHANGED <<timeoutParam, containerRunning, streamData, elapsed,
                   timerFired, execCreated, chunks, cmdOutcome, hpc, content,
                   cmdFirst>>
    /\ UNCHANGED <<parseVars, shellVars, toolVars, httpVars, fileVars, hostVars>>

\* stream 'end': the awaited promise resolves and exec.inspect() is issued.
StreamEnd ==
    /\ cpc = "stream"
    /\ ~TimerDue
    /\ Delivered = Len(streamData)
    /\ cpc' = "inspectExec"
    /\ UNCHANGED <<timeoutParam, containerRunning, streamData, elapsed,
                   timerFired, execCreated, chunks, cmdOutcome, hpc, content,
                   cmdFirst>>
    /\ UNCHANGED <<parseVars, shellVars, toolVars, httpVars, fileVars, hostVars>>

\* stream 'error': the awaited promise rejects.
StreamFails == CmdFail("stream", {StreamError})

\* exec.inspect() answers: return {stdout, stderr, exitCode}.
InspectExec ==
    /\ cpc = "inspectExec"
    /\ ~TimerDue
    /\ \E code \in ExitCodes :
          LET parsed == parseDockerStream(Concat(chunks))
          IN  Settle(Resolved([stdout |-> parsed.stdout,
                               stderr |-> parsed.stderr,
                               exitCode |-> code]))
    /\ cpc' = "resolved"
    /\ UNCHANGED <<timeoutParam, containerRunning, streamData, elapsed,
                   timerFired, execCreated, chunks>>
    /\ UNCHANGED <<parseVars, shellVars, toolVars, httpVars, fileVars, hostVars>>

InspectExecFails == CmdFail("inspectExec", DaemonErrors)

NextExec ==
    \/ Tick \/ TimerFire
    \/ InspectContainer \/ InspectContainerFails
    \/ CreateExec \/ CreateExecFails
    \/ StartExec \/ StartExecFails
    \/ StreamChunk \/ StreamEnd \/ StreamFails
    \/ InspectExec \/ InspectExecFails

SpecExec == InitExec /\ [][NextExec]_vars

(***************************************************************************)
(* Claims about the exec tool.                                             *)
(***************************************************************************)
\* The timeout in seconds as the tool's documentation states it.
StatedTimeout ==
    CASE timeoutParam = "1" -> 1
      [] timeoutParam = "2" -> 2
      [] timeoutParam = "omitted" -> 30

TimeoutResult == <<ErrorText("Execution error: ", TimeoutError)>>

\* C5: with timeout T (30 when omitted), a call whose command has not
\* settled when T seconds have elapsed returns 'Execution error: Command
\* timeout' and is pending no longer; a call whose command settles before
\* the timer fires returns the command's own outcome, not the timeout error.
C5_TimeoutRace ==
    /\ (hpc # "idle" /\ elapsed >= StatedTimeout /\ timerFired /\ ~cmdFirst)
          => (hpc = "returned" /\ content = TimeoutResult)
    /\ (hpc = "pending" => elapsed <= StatedTimeout)
    /\ cmdFirst =>
          /\ hpc = "returned"
          /\ content = HandlerResult(cmdOutcome)
          /\ content # TimeoutResult

\* The default timeout ran out while the command was still streaming.
C5_Witness ==
    /\ timeoutParam = "omitted"
    /\ elapsed = 30
    /\ cpc = "stream"
    /\ hpc = "returned"
    /\ content = TimeoutResult

IsExecutionError(c) ==
    /\ Len(c) = 1
    /\ c[1].type = "text"
    /\ c[1].prefix = "Execution error: "
    /\ c[1].message # ""

\* C6: for a container that inspection reports as not running, the call
\* returns a text starting with 'Execution error:' and is never pending
\* past the configured timeout, whenever the daemon answers.
C6_NotRunningReturnsError ==
    (hpc # "idle" /\ ~containerRunning) =>
        /\ hpc = "returned" => IsExecutionError(content)
        /\ hpc = "pending" => elapsed <= StatedTimeout
        /\ elapsed > StatedTimeout => hpc = "returned"
        /\ (cpc = "rejected" /\ cmdFirst /\ cmdOutcome.value = NotRunningError)
              => content = <<ErrorText("Execution error: ", NotRunningError)>>

\* The inspection answered "not running" after one second, before the timer.
C6_Witness ==
    /\ ~containerRunning
    /\ hpc = "returned"
    /\ cmdOutcome = Rejected(NotRunningError)
    /\ content = <<ErrorText("Execution error: ", NotRunningError)>>
    /\ elapsed = 1
    /\ ~timerFired

HasSection(c, label) == \E i \in 1..Len(c.sections) : c.sections[i].label = label

SectionBody(c, label) ==
    c.sections[CHOOSE i \in 1..Len(c.sections) : c.sections[i].label = label].body

\* C13: a call whose command completed returns one text that is no
\* 'Execution error', ends with the command's exit code (zero or not), has
\* a STDOUT section exactly when the demultiplexed stdout is non-empty and
\* a STDERR section exactly when the demultiplexed stderr is non-empty,
\* each holding that stream's text, STDOUT before STDERR.
C13_ExecOutput ==
    (hpc = "returned" /\ cmdFirst /\ cmdOutcome.state = "resolved") =>
        LET demux == parseDockerStream(streamData)
            c == content[1]
        IN  /\ Len(content) = 1
            /\ c.type = "text"
            /\ c.prefix = "" /\ c.message = ""
            /\ c.exitCode = cmdOutcome.value.exitCode
            /\ c.exitCode \in ExitCodes
            /\ HasSection(c, "STDOUT:") <=> demux.stdout # <<>>
            /\ HasSection(c, "STDERR:") <=> demux.stderr # <<>>
            /\ HasSection(c, "STDOUT:") => SectionBody(c, "STDOUT:") = demux.stdout
            /\ HasSection(c, "STDERR:") => SectionBody(c, "STDERR:") = demux.stderr
            /\ \A i \in 1..Len(c.sections) :
                  /\ c.sections[i].label \in {"STDOUT:", "STDERR:"}
                  /\ c.sections[i].label = "STDOUT:" => i = 1
            /\ Len(c.sections) <= 2
            /\ Len(c.sections) = 2 => c.sections[2].label = "STDERR:"

\* A command that wrote to both streams and exited with status 1.
C13_Witness ==
    /\ hpc = "returned" /\ cmdFirst
    /\ cmdOutcome.state = "resolved"
    /\ content[1].exitCode = "1"
    /\ Len(content[1].sections) = 2
    /\ Len(chunks) = 2

\* The Docker calls of executeDockerCommand in the order of its awaits.
CallOrder == <<"inspect", "create", "start", "stream", "inspectExec", "resolved">>

\* One step along CallOrder, or the failure of the call in progress.
InCallOrder(from, to) ==
    \/ \E i \in 1..(Len(CallOrder) - 1) : from = CallOrder[i] /\ to = CallOrder[i + 1]
    \/ from \in {"inspect", "create", "start", "stream", "inspectExec"} /\ to = "rejected"

Collected == Concat(chunks)

C21_State ==
    /\ execCreated => containerRunning
    /\ cpc \in {"start", "stream", "inspectExec", "resolved"} => execCreated
    /\ cpc \in {"inspect", "create"} => ~execCreated
    /\ cpc \in {"inspectExec", "resolved"} => Collected = streamData
    /\ cmdOutcome.state = "resolved" =>
          /\ cpc = "resolved"
          /\ cmdOutcome.value.stdout = parseDockerStream(streamData).stdout
          /\ cmdOutcome.value.stderr = parseDockerStream(streamData).stderr

\* C21: executeDockerCommand goes inspect container, create exec, start
\* exec, collect the stream until 'end', inspect exec, in that order; an
\* exec instance exists only if the container inspection reported Running;
\* the exit code is read only after the stream ended, so the returned
\* stdout and stderr are demultiplexed from every chunk the stream emitted.
C21_CallOrder ==
    /\ []C21_State
    /\ [][cpc' # cpc => InCallOrder(cpc, cpc')]_vars

\* The command completed after its stream came in two chunks.
C21_Witness ==
    /\ cpc = "resolved" /\ execCreated /\ containerRunning
    /\ Len(chunks) = 2 /\ Collected = streamData
    /\ cmdOutcome.value.stdout # <<>> /\ cmdOutcome.value.stderr # <<>>

\* The promises of the call that have rejected.
RejectedPromises ==
    (IF timerFired THEN {"timer"} ELSE {})
    \cup (IF cmdOutcome.state = "rejected" THEN {"command"} ELSE {})

\* Rejections nothing reacts to: Node reports them as unhandled rejections.
UnhandledRejections == RejectedPromises \ RaceInputs

\* C22: an exec call produces one result; once the race is decided, the
\* losing side's event (the timer firing after the command settled, the
\* command settling after the timeout was returned) leaves the returned
\* result as it is, produces no further result and no unhandled rejection.
C22_OneResult ==
    /\ [](UnhandledRejections = {})
    /\ [](hpc = "returned" <=> Len(content) = 1)
    /\ [](hpc = "pending" <=> content = <<>>)
    /\ [][hpc = "returned" => (hpc' = "returned" /\ content' = content)]_vars

\* The command completed first and the timer fired afterwards.
C22_Witness ==
    /\ hpc = "returned" /\ cmdFirst /\ timerFired
    /\ cmdOutcome.state = "resolved"
    /\ content = HandlerResult(cmdOutcome)
    /\ elapsed = Timeout(timeoutParam)

\* A Docker call of executeDockerCommand is outstanding or its stream is open.
InFlight == cpc \in {"inspect", "create", "start", "stream", "inspectExec"}

\* C23: once the exec call has returned its result, no Docker command it
\* started is still in flight; when it returned 'Command timeout', the
\* command's exec and its output stream have been stopped.
C23_NothingInFlight ==
    hpc = "returned" => ~InFlight

(***************************************************************************)
(* One call of any tool.                                                   *)
(***************************************************************************)
\* A client calls one of the tools: the handler's locals are new.
ToolCalled ==
    /\ tool \in ToolNames
    /\ tstep \in FirstSteps(tool)
    /\ firstStep = tstep
    /\ tstatus = "running" /\ tcontent = <<>> /\ thrown = "none"
    /\ answers = <<>>

InitTools ==
    /\ ParseIdle /\ ShellIdle /\ HttpIdle /\ FileIdle /\ HostIdle
    /\ serverState = ServerStart
    /\ calls = 1
    /\ \/ ExecCalled /\ NoCall
       \/ ExecIdle /\ ToolCalled

\* The handler leaves the awaited step through exit e.
Leave(e, value) ==
    CASE e.kind = "goto" ->
           /\ tstep' = e.step
           /\ UNCHANGED <<tstatus, tcontent>>
      [] e.kind = "return" ->
           /\ tstatus' = "returned"
           /\ tcontent' = <<ErrorText(e.prefix, e.message)>>
           /\ UNCHANGED tstep
      [] e.kind = "catch" ->
           /\ tstatus' = "returned"
           /\ tcontent' = <<ErrorText(e.prefix, CaughtMessage(value, e.message))>>
           /\ UNCHANGED tstep
      [] OTHER ->
           /\ tstatus' = "rejected"
           /\ UNCHANGED <<tstep, tcontent>>

\* The awaited call or check comes out well.
ToolStepOk ==
    /\ tstatus = "running"
    /\ Leave(Step(tool, tstep).ok, "none")
    /\ answers' = Append(answers, <<"ok", "none">>)
    /\ serverState' = ServerWrite(serverState, tool)
    /\ UNCHANGED <<tool, thrown, calls, firstStep>>
    /\ UNCHANGED <<parseVars, shellVars, execVars, httpVars, fileVars, hostVars>>

\* The awaited call answers with the unfavourable result.
ToolStepNegative ==
    /\ tstatus = "running"
    /\ Step(tool, tstep).neg.kind # "none"
    /\ Leave(Step(tool, tstep).neg, "none")
    /\ answers' = Append(answers, <<"neg", "none">>)
    /\ serverState' = ServerWrite(serverState, tool)
    /\ UNCHANGED <<tool, thrown, calls, firstStep>>
    /\ UNCHANGED <<parseVars, shellVars, execVars, httpVars, fileVars, hostVars>>

\* The awaited call throws.
ToolStepThrows ==
    /\ tstatus = "running"
    /\ Step(tool, tstep).thr.kind # "none"
    /\ \E value \in Thrown :
          /\ Leave(Step(tool, tstep).thr, value)
          /\ thrown' = IF Step(tool, tstep).call = "docker" THEN value ELSE thrown
          /\ answers' = Append(answers,
                 <<"thr", IF Step(tool, tstep).thr.kind = "catch" THEN value ELSE "none">>)
    /\ serverState' = ServerWrite(serverState, tool)
    /\ UNCHANGED <<tool, calls, firstStep>>
    /\ UNCHANGED <<parseVars, shellVars, execVars, httpVars, fileVars, hostVars>>

\* The call has returned and the client makes another one.  A handler's
\* locals do not outlive its call; the module-level variables do.
NewCall ==
    /\ hpc = "returned" \/ tstatus = "returned"
    /\ calls < MaxCalls
    /\ calls' = calls + 1
    /\ \/ \* the exec tool, as in ExecCalled
          /\ timeoutParam' \in TimeoutParams
          /\ containerRunning' \in BOOLEAN
          /\ streamData' \in StreamChoices
          /\ elapsed' = 0 /\ timerFired' = FALSE
          /\ cpc' = "inspect" /\ execCreated' = FALSE /\ chunks' = <<>>
          /\ cmdOutcome' = Unsettled /\ hpc' = "pending" /\ content' = <<>>
          /\ cmdFirst' = FALSE
          /\ tool' = "none" /\ tstep' = 0 /\ tstatus' = "idle"
          /\ tcontent' = <<>> /\ thrown' = "none" /\ firstStep' = 0
          /\ answers' = <<>>
       \/ \* another tool, as in ToolCalled
          /\ timeoutParam' = "omitted" /\ containerRunning' = FALSE
          /\ streamData' = <<>> /\ elapsed' = 0 /\ timerFired' = FALSE
          /\ cpc' = "idle" /\ execCreated' = FALSE /\ chunks' = <<>>
          /\ cmdOutcome' = Unsettled /\ hpc' = "idle" /\ content' = <<>>
          /\ cmdFirst' = FALSE
          /\ tool' \in ToolNames
          /\ \E n \in FirstSteps(tool') : tstep' = n /\ firstStep' = n
          /\ tstatus' = "running" /\ tcontent' = <<>> /\ thrown' = "none"
          /\ answers' = <<>>
    /\ UNCHANGED serverState
    /\ UNCHANGED <<parseVars, shellVars, httpVars, fileVars, hostVars>>

NextTools ==
    NextExec \/ ToolStepOk \/ ToolStepNegative \/ ToolStepThrows \/ NewCall

SpecTools == InitTools /\ [][NextTools]_vars

\* C7: no handler rejects or throws; whatever fails (the daemon, the
\* container, the stream, the command's exit code, the timer), the handler
\* returns one text content item, and a thrown error's message is in it.
C7_HandlersNeverThrow ==
    /\ tstatus # "rejected"
    /\ tstatus = "returned" =>
          /\ Len(tcontent) = 1
          /\ tcontent[1].type = "text"
          /\ tcontent[1].message # ""
    /\ (tstatus = "returned" /\ thrown # "none") =>
          /\ tcontent[1].prefix = CatchPrefix(tool)
          /\ tcontent[1].message \in
                {thrown, "Unknown error", "Unknown error occurred",
                 "Search failed", "File search failed"}
          /\ thrown # NonError => tcontent[1].message = thrown
    /\ hpc \in {"idle", "pending", "returned"}
    /\ hpc = "returned" =>
          /\ Len(content) = 1
          /\ content[1].type = "text"
    /\ (hpc = "returned" /\ cmdFirst /\ cmdOutcome.state = "rejected") =>
          content = <<ErrorText("Execution error: ", cmdOutcome.value)>>
    /\ (hpc = "returned" /\ cmdFirst /\ cmdOutcome.state = "resolved") =>
          content[1].exitCode = cmdOutcome.value.exitCode
    /\ (hpc = "returned" /\ ~cmdFirst) => content = TimeoutResult

\* What a call returns, worked out from the tool, the step it started at
\* and what its awaited calls answered, and from nothing else.
RECURSIVE Replay(_, _, _)
Replay(t, n, as) ==
    IF as = <<>> THEN <<>>
    ELSE LET a == Head(as)
             st == Step(t, n)
             e == CASE a[1] = "ok" -> st.ok [] a[1] = "neg" -> st.neg [] OTHER -> st.thr
         IN  CASE e.kind = "goto" -> Replay(t, e.step, Tail(as))
               [] e.kind = "return" -> <<ErrorText(e.prefix, e.message)>>
               [] e.kind = "catch" ->
                    <<ErrorText(e.prefix, CaughtMessage(a[2], e.message))>>
               [] OTHER -> <<>>

C7_Witness ==
    /\ tool = "delete_file"
    /\ tstep = 3
    /\ thrown = StreamError
    /\ tstatus = "returned"
    /\ tcontent = <<ErrorText("Error deleting file: ", StreamError)>>

(***************************************************************************)
(* One request to /mcp of the HTTP server.                                 *)
(***************************************************************************)
InitHttp ==
    /\ ParseIdle /\ ShellIdle /\ ExecIdle /\ ToolIdle /\ FileIdle /\ HostIdle
    /\ authToken \in {Unset} \cup {EnvValue(v) : v \in SeqsUpTo(Symbols, MaxTokenLen)}
    /\ method \in {"POST", "GET", "DELETE"}
    /\ authHeader \in
          {Absent} \cup {HeaderValue(v) : v \in SeqsUpTo(Symbols, MaxTokenLen + 1)}
    /\ rpc = "received"
    /\ resStatus = 0 /\ resCode = 0 /\ headersSent = FALSE
    /\ nextCalls = 0 /\ authResponded = FALSE /\ serverCreated = FALSE
    /\ transportCreated = FALSE /\ toolRan = FALSE
    /\ LifecycleStart

HttpFrame ==
    UNCHANGED <<parseVars, shellVars, execVars, toolVars, fileVars, hostVars>>

\* res.status(status).json({jsonrpc, error: {code, ...}, id: null}), or
\* the transport writing its response: a response is started.
Respond(status, code) ==
    /\ resStatus' = status
    /\ resCode' = code
    /\ headersSent' = TRUE
    /\ resStarts' = resStarts + 1

\* The catch block of the POST route after the awaited call `stage` threw,
\* the transport having started the response (sent) or not.
Catch(stage, sent) ==
    /\ threw' = stage
    /\ sentBefore' = sent
    /\ IF CatchAnswers(sent)
       THEN /\ resStatus' = 500 /\ resCode' = -32603 /\ headersSent' = TRUE
            /\ resStarts' = resStarts + (IF sent THEN 2 ELSE 1)
       ELSE /\ resStatus' = 200 /\ resCode' = 0 /\ headersSent' = TRUE
            /\ resStarts' = resStarts + 1
    /\ rpc' = "done"

\* The middleware runs first on the routes it is mounted on.
AuthMiddleware ==
    /\ rpc = "received"
    /\ AuthMounted(method)
    /\ LET d == AuthDecision(authToken, authHeader)
       IN  CASE d = "401" ->
                  /\ Respond(401, -32001)
                  /\ authResponded' = TRUE
                  /\ rpc' = "done"
                  /\ UNCHANGED nextCalls
             [] d = "403" ->
                  /\ Respond(403, -32002)
                  /\ authResponded' = TRUE
                  /\ rpc' = "done"
                  /\ UNCHANGED nextCalls
             [] OTHER ->
                  /\ nextCalls' = nextCalls + 1
                  /\ rpc' = "route"
                  /\ UNCHANGED <<resStatus, resCode, headersSent, authResponded,
                                 resStarts>>
    /\ UNCHANGED <<authToken, method, authHeader, serverCreated,
                   transportCreated, toolRan, built, threw, sentBefore,
                   closeListener, resClosed, transportClosed, serverClosed>>
    /\ HttpFrame

\* The POST route: getServer(), new StreamableHTTPServerTransport(...).
PostRoute ==
    /\ rpc = "route"
    /\ method = "POST"
    /\ serverCreated' = TRUE
    /\ transportCreated' = TRUE
    /\ built' = [servers |-> built.servers + 1, transports |-> built.transports + 1]
    /\ rpc' = "connect"
    /\ UNCHANGED <<authToken, method, authHeader, resStatus, resCode,
                   headersSent, nextCalls, authResponded, toolRan, resStarts,
                   threw, sentBefore, closeListener, resClosed,
                   transportClosed, serverClosed>>
    /\ HttpFrame

\* await server.connect(transport)
Connect ==
    /\ rpc = "connect"
    /\ rpc' = "handle"
    /\ UNCHANGED <<authToken, method, authHeader, resStatus, resCode,
                   headersSent, nextCalls, authResponded, serverCreated,
                   transportCreated, toolRan, built, resStarts, threw,
                   sentBefore, closeListener, resClosed, transportClosed,
                   serverClosed>>
    /\ HttpFrame

\* server.connect throws: nothing has written to the response yet.
ConnectThrows ==
    /\ rpc = "connect"
    /\ Catch("connect", FALSE)
    /\ UNCHANGED <<authToken, method, authHeader, nextCalls, authResponded,
                   serverCreated, transportCreated, toolRan, built,
                   closeListener, resClosed, transportClosed, serverClosed>>
    /\ HttpFrame

\* await transport.handleRequest(req, res, req.body) returns: the transport
\* answers, after running a tool handler when the request is a tools/call;
\* the route then registers res.on('close', ...).
HandleRequest ==
    /\ rpc = "handle"
    /\ toolRan' \in BOOLEAN
    /\ Respond(200, 0)
    /\ closeListener' = TRUE
    /\ rpc' = "done"
    /\ UNCHANGED <<authToken, method, authHeader, nextCalls, authResponded,
                   serverCreated, transportCreated, built, threw, sentBefore,
                   resClosed, transportClosed, serverClosed>>
    /\ HttpFrame

\* handleRequest throws, before or after the transport started the response.
HandleRequestThrows ==
    /\ rpc = "handle"
    /\ \E sent \in BOOLEAN : Catch("handle", sent)
    /\ UNCHANGED <<authToken, method, authHeader, nextCalls, authResponded,
                   serverCreated, transportCreated, toolRan, built,
                   closeListener, resClosed, transportClosed, serverClosed>>
    /\ HttpFrame

\* app.get('/mcp') and app.delete('/mcp'): res.writeHead(405).end(...)
MethodNotAllowed ==
    /\ rpc = (IF AuthMounted(method) THEN "route" ELSE "received")
    /\ method \in {"GET", "DELETE"}
    /\ Respond(405, -32000)
    /\ rpc' = "done"
    /\ UNCHANGED <<authToken, method, authHeader, nextCalls, authResponded,
                   serverCreated, transportCreated, toolRan, built, threw,
                   sentBefore, closeListener, resClosed, transportClosed,
                   serverClosed>>
    /\ HttpFrame

\* The response's 'close' event: the response was sent in full, or the
\* client went away while the route was awaiting.  A listener registered
\* by then runs transport.close() and server.close(); one registered later
\* is never called.
ResponseCloses ==
    /\ rpc \in {"connect", "handle", "done"}
    /\ ~resClosed
    /\ resClosed' = TRUE
    /\ transportClosed' = closeListener
    /\ serverClosed' = closeListener
    /\ UNCHANGED <<authToken, method, authHeader, rpc, resStatus, resCode,
                   headersSent, nextCalls, authResponded, serverCreated,
                   transportCreated, toolRan, built, resStarts, threw,
                   sentBefore, closeListener>>
    /\ HttpFrame

NextHttp ==
    \/ AuthMiddleware \/ PostRoute \/ Connect \/ ConnectThrows
    \/ HandleRequest \/ HandleRequestThrows \/ MethodNotAllowed
    \/ ResponseCloses

SpecHttp == InitHttp /\ [][NextHttp]_vars

\* The event loop runs every callback that is due and every connection
\* closes in the end.
SpecHttpLive == SpecHttp /\ WF_vars(NextHttp)

(***************************************************************************)
(* Claims about the bearer-token check.                                    *)
(***************************************************************************)
TokenConfigured == authToken.set /\ authToken.value # <<>>

\* The header is the configured token, bare or after "Bearer ".
CarriesToken ==
    /\ authHeader.present
    /\ \/ authHeader.value = authToken.value
       \/ authHeader.value = <<Bearer>> \o authToken.value

\* C8: with a token configured, a request whose Authorization header is
\* absent, or is neither the token nor "Bearer " followed by the token,
\* runs no tool handler and gets no MCP server and no transport.
C8_NoTokenNoTools ==
    (rpc # "idle" /\ TokenConfigured /\ ~CarriesToken) =>
        /\ ~serverCreated
        /\ ~transportCreated
        /\ ~toolRan
        /\ rpc \in {"received", "done"}

\* A POST with a wrong token has been turned away.
C8_Witness ==
    /\ method = "POST"
    /\ TokenConfigured
    /\ authHeader.present /\ authHeader.value # <<>>
    /\ ~CarriesToken
    /\ rpc = "done"
    /\ resStatus = 403
    /\ ~serverCreated

\* The token a request carries: its header without a leading "Bearer ".
RequestToken ==
    IF authHeader.value # <<>> /\ Head(authHeader.value) = Bearer
    THEN Tail(authHeader.value)
    ELSE authHeader.value

AuthRan == method = "POST" /\ rpc \notin {"idle", "received"}

Answered(status, code) ==
    /\ authResponded
    /\ resStatus = status /\ resCode = code
    /\ nextCalls = 0
    /\ rpc = "done"

PassedOn == nextCalls = 1 /\ ~authResponded

\* C9 (as stated): with a token configured, no Authorization header gives
\* 401 / -32001, a header whose token differs gives 403 / -32002, neither
\* calls next(); a matching token gives exactly one next() and no response
\* from the middleware.
C9_AuthAnswers ==
    (AuthRan /\ TokenConfigured) =>
        /\ ~authHeader.present => Answered(401, -32001)
        /\ (authHeader.present /\ RequestToken # authToken.value)
              => Answered(403, -32002)
        /\ (authHeader.present /\ RequestToken = authToken.value) => PassedOn

\* C9 (amended): an absent or empty Authorization header gives 401 /
\* -32001, a non-empty header whose token differs gives 403 / -32002,
\* neither calls next(); a matching token gives exactly one next() and no
\* response from the middleware.
C9_AuthAnswersAmended ==
    /\ nextCalls <= 1
    /\ (AuthRan /\ TokenConfigured) =>
        /\ (~authHeader.present \/ authHeader.value = <<>>)
              => Answered(401, -32001)
        /\ (authHeader.present /\ authHeader.value # <<>>
              /\ RequestToken # authToken.value) => Answered(403, -32002)
        /\ (authHeader.present /\ RequestToken = authToken.value) => PassedOn

\* A "Bearer <token>" header was let through, once.
C9_Witness ==
    /\ AuthRan /\ TokenConfigured
    /\ authHeader.present
    /\ authHeader.value = <<Bearer>> \o authToken.value
    /\ nextCalls = 1
    /\ ~authResponded
    /\ rpc = "route"

\* C10: with MCP_AUTH_TOKEN unset or empty, the middleware calls next()
\* whatever the Authorization header is, and never answers 401 or 403.
C10_NoTokenNoCheck ==
    (method = "POST" /\ ~TokenConfigured) =>
        /\ resStatus \notin {401, 403}
        /\ ~authResponded
        /\ rpc \notin {"idle", "received"} => nextCalls = 1

\* An empty MCP_AUTH_TOKEN and a request carrying some header.
C10_Witness ==
    /\ method = "POST"
    /\ authToken = EnvValue(<<>>)
    /\ authHeader.present /\ authHeader.value # <<>>
    /\ nextCalls = 1
    /\ rpc = "route"

\* The request reached the POST route.
Routed == method = "POST" /\ rpc \in {"connect", "handle", "done"} /\ nextCalls = 1

\* The request built one McpServer and one transport of its own.
OwnServerAndTransport ==
    /\ Routed => (serverCreated /\ transportCreated
                    /\ built = [servers |-> 1, transports |-> 1])
    /\ ~Routed => (~serverCreated /\ ~transportCreated /\ built = NothingBuilt)

AllClosed == resClosed /\ transportClosed /\ serverClosed

\* C26: every POST /mcp request that reaches the route gets an McpServer
\* and a transport created for it alone, and for every such request the
\* transport and the server are closed in the end, after the response
\* closed, also when the connection closes before handling finishes and
\* when connecting or handling throws.
C26_Lifecycle ==
    /\ []OwnServerAndTransport
    /\ [](transportClosed \/ serverClosed => resClosed)
    /\ (serverCreated ~> AllClosed)

\* The catch block answered 500 with JSON-RPC error -32603.
InternalErrorAnswered == resStatus = 500 /\ resCode = -32603

\* C27: when connecting the transport or handling the request throws, the
\* route answers 500 with JSON-RPC error -32603 exactly when no response
\* headers had been sent; no request has its response started twice.
C27_InternalError ==
    /\ threw # "none" => (InternalErrorAnswered <=> ~sentBefore)
    /\ threw = "none" => ~InternalErrorAnswered
    /\ resStarts <= 1
    /\ headersSent <=> resStarts = 1

\* handleRequest threw after the transport had started the response.
C27_Witness ==
    /\ threw = "handle" /\ sentBefore
    /\ rpc = "done" /\ headersSent
    /\ resStatus = 200 /\ resStarts = 1

\* C28: every GET or DELETE request to /mcp is answered 405 with JSON-RPC
\* error -32000, builds no MCP server and no transport and runs no tool
\* handler, whatever token is configured and whatever token it carries;
\* the bearer-token check is not run on it.
C28_OnlyPost ==
    method \in {"GET", "DELETE"} =>
        /\ rpc \in {"received", "done"}
        /\ rpc = "done" => (resStatus = 405 /\ resCode = -32000 /\ resStarts = 1)
        /\ rpc = "received" => (resStatus = 0 /\ ~headersSent)
        /\ ~serverCreated /\ ~transportCreated /\ ~toolRan
        /\ built = NothingBuilt
        /\ nextCalls = 0 /\ ~authResponded

\* A DELETE without a header was answered 405 though a token is configured.
C28_Witness ==
    /\ method = "DELETE" /\ rpc = "done"
    /\ TokenConfigured /\ ~authHeader.present
    /\ resStatus = 405 /\ resCode = -32000
    /\ ~serverCreated

(***************************************************************************)
(* One call of a file tool, command by command.                            *)
(***************************************************************************)
InitFiles ==
    /\ ParseIdle /\ ShellIdle /\ ExecIdle /\ ToolIdle /\ HttpIdle /\ HostIdle
    /\ ftool \in FileTools
    /\ fargs \in ArgsOf(ftool)
    /\ target \in FsStates
    /\ target0 = target
    /\ fsTouched = FALSE
    /\ fpc = "start" /\ cphase = "none" /\ fcmd = NoCommand
    /\ running = 0 /\ issued = <<>> /\ exitsRead = 0 /\ cres = NoResult
    /\ flocal = NoLocals /\ fstatus = "running" /\ fresult = NoText

FileFrame ==
    UNCHANGED <<parseVars, shellVars, execVars, toolVars, httpVars, hostVars>>

\* The handler does what `next` says: calls executeDockerCommand or returns.
Proceed(next) ==
    IF next.do = "run"
    THEN /\ fpc' = next.pc
         /\ fcmd' = next.cmd
         /\ flocal' = next.loc
         /\ cphase' = "calling"
         /\ UNCHANGED <<fstatus, fresult>>
    ELSE /\ fpc' = "done"
         /\ fstatus' = "returned"
         /\ fresult' = next.text
         /\ cphase' = IF cphase = "running" THEN cphase ELSE "none"
         /\ UNCHANGED <<fcmd, flocal>>

\* The handler is called and runs to its first await.
FileToolStart ==
    /\ fstatus = "running"
    /\ fpc = "start"
    /\ Proceed(Enter(ftool, fargs))
    /\ UNCHANGED <<ftool, fargs, target, target0, fsTouched, running, issued,
                   exitsRead, cres>>
    /\ FileFrame

\* container.inspect(), container.exec() and exec.start() answered: the
\* command runs in the container.
CommandStarts ==
    /\ fstatus = "running"
    /\ cphase = "calling"
    /\ cphase' = "running"
    /\ running' = running + 1
    /\ issued' = Append(issued, fcmd.name)
    /\ UNCHANGED <<ftool, fargs, target, target0, fsTouched, fpc, fcmd, exitsRead,
                   cres, flocal, fstatus, fresult>>
    /\ FileFrame

\* The command has done its work and its stream ends.
CommandEnds ==
    /\ cphase = "running"
    /\ fstatus = "running"
    /\ \E listing \in {<<>>, <<LETTER>>} :
          LET out == RunCommand(fcmd, target, listing)
          IN  /\ target' = out.fs
              /\ cres' = [word |-> out.word, data |-> out.data,
                          exitCode |-> out.exitCode]
    /\ running' = running - 1
    /\ cphase' = "ended"
    /\ UNCHANGED <<ftool, fargs, target0, fsTouched, fpc, fcmd, issued, exitsRead,
                   flocal, fstatus, fresult>>
    /\ FileFrame

\* exec.inspect() answers with the exit code.
ExitCodeRead ==
    /\ cphase = "ended"
    /\ fstatus = "running"
    /\ cphase' = "read"
    /\ exitsRead' = exitsRead + 1
    /\ UNCHANGED <<ftool, fargs, target, target0, fsTouched, fpc, fcmd, running,
                   issued, cres, flocal, fstatus, fresult>>
    /\ FileFrame

\* The awaited executeDockerCommand has returned: the handler goes on to
\* its next await or to its return.
HandlerResumes ==
    /\ fstatus = "running"
    /\ AwaitOver(cphase)
    /\ Proceed(AfterCommand(ftool, fargs, fpc, cres, flocal))
    /\ UNCHANGED <<ftool, fargs, target, target0, fsTouched, running, issued,
                   exitsRead, cres>>
    /\ FileFrame

\* A Docker call of executeDockerCommand throws: the handler's catch block
\* returns the error text.
CommandThrows ==
    /\ fstatus = "running"
    /\ cphase \in {"calling", "running", "ended"}
    /\ fstatus' = "returned"
    /\ fresult' = Text("caught")
    /\ fpc' = "done"
    /\ UNCHANGED <<ftool, fargs, target, target0, fsTouched, cphase, fcmd, running,
                   issued, exitsRead, cres, flocal>>
    /\ FileFrame

\* Another process in the container changes what is at the path, between
\* two commands of the call.
PathChanges ==
    /\ fstatus = "running"
    /\ cphase = "calling"
    /\ ftool \in {"delete_file", "search_replace"}
    /\ \E new \in {AbsentPath, Directory, RegularFile(<<LETTER>>)} :
          /\ new # target
          /\ target' = new
    /\ fsTouched' = TRUE
    /\ UNCHANGED <<ftool, fargs, target0, fpc, cphase, fcmd, running, issued,
                   exitsRead, cres, flocal, fstatus, fresult>>
    /\ FileFrame

NextFiles ==
    \/ FileToolStart \/ CommandStarts \/ CommandEnds \/ ExitCodeRead
    \/ HandlerResumes \/ CommandThrows \/ PathChanges

SpecFiles == InitFiles /\ [][NextFiles]_vars

(***************************************************************************)
(* Claims about the file tools.                                            *)
(***************************************************************************)
\* C12: at every moment of a call at most one command started by it is
\* running, and a command is started only when every earlier command of
\* the call has ended and has had its exit code read.
C12_OneCommandAtATime ==
    /\ running <= 1
    /\ cphase = "calling" => (running = 0 /\ exitsRead = Len(issued))
    /\ cphase = "running" => (running = 1 /\ exitsRead = Len(issued) - 1)
    /\ exitsRead <= Len(issued)

\* write_file ran mkdir, the existence test and the write, one after another.
C12_Witness ==
    /\ ftool = "write_file"
    /\ issued = <<"mkdir -p", "test -f", "write">>
    /\ exitsRead = 3
    /\ running = 0
    /\ fstatus = "returned"

\* The places where s occurs in d.
Occurrences(d, s) == {i \in 1..Len(d) : OccursAt(d, s, i)}

\* d with the occurrences of s, taken from the left, replaced by the
\* characters of new as they are: the first only, or every one.
RECURSIVE Replaced(_, _, _, _)
Replaced(d, s, new, every) ==
    IF Occurrences(d, s) = {} THEN d
    ELSE LET i == CHOOSE k \in Occurrences(d, s) : \A j \in Occurrences(d, s) : k <= j
             rest == SubSeq(d, i + Len(s), Len(d))
         IN  SubSeq(d, 1, i - 1) \o new
                \o (IF every THEN Replaced(rest, s, new, every) ELSE rest)

\* C14: search_replace answers 'must be different' when old_string equals
\* new_string, 'is not unique' when replace_all is false and old_string
\* occurs more than once, 'not found' when it occurs nowhere, each time
\* leaving the file as it was; otherwise a call that reports a replacement
\* leaves the file with the one occurrence (every occurrence with
\* replace_all) replaced by new_string and nothing else changed.
C14_SearchReplace ==
    (ftool = "search_replace" /\ fstatus = "returned" /\ fresult.kind # "caught"
        /\ target0.kind = "file" /\ ~fsTouched /\ fargs.old # <<>>) =>
        LET d == target0.data
            n == Cardinality(Occurrences(d, fargs.old))
        IN  IF fargs.old = fargs.new
            THEN fresult.kind = "must be different" /\ target = target0
            ELSE IF ~fargs.replaceAll /\ n > 1
            THEN fresult.kind = "is not unique" /\ target = target0
            ELSE IF n = 0
            THEN fresult.kind = "not found in file" /\ target = target0
            ELSE fresult.kind = "replaced" =>
                    target = RegularFile(Replaced(d, fargs.old, fargs.new,
                                                   fargs.replaceAll))

\* The lines of a file: the text between newlines; a newline at the end of
\* the text ends the last line and starts no further one.
FileLines(d) ==
    IF d # <<>> /\ d[Len(d)] = NL
    THEN SplitLines(SubSeq(d, 1, Len(d) - 1))
    ELSE SplitLines(d)

ReadReturned ==
    /\ ftool = "read_file" /\ fstatus = "returned" /\ fresult.kind # "caught"
    /\ target0.kind = "file"

\* C15: for a non-empty file of N lines, read_file returns exactly the
\* lines max(1, offset) (1 when omitted) through
\* min(N, max(1, offset) + limit - 1) (N when omitted), in order, each with
\* its own 1-based number.
C15_ReadFileLines ==
    (ReadReturned /\ target0.data # <<>>) =>
        LET all == FileLines(target0.data)
            from == IF fargs.offset.def THEN Max(1, fargs.offset.val) ELSE 1
            to == IF fargs.limit.def
                  THEN Min(Len(all), from + fargs.limit.val - 1)
                  ELSE Len(all)
            count == Max(0, to - from + 1)
        IN  /\ fresult.kind = "numbered lines"
            /\ fresult.lines =
                  [i \in 1..count |->
                      [lineNumber |-> from + i - 1, line |-> all[from + i - 1]]]

\* C16: with a limit, read_file returns at most max(0, limit) lines.
C16_ReadFileLimit ==
    (ReadReturned /\ fargs.limit.def) =>
        Len(fresult.lines) <= Max(0, fargs.limit.val)

DeleteReturned == ftool = "delete_file" /\ fstatus = "returned"

RmIssued == \E i \in 1..Len(issued) : issued[i] = "rm"

\* C17: delete_file called on a path that is absent or a directory, and
\* stays so during the call, returns a text, issues no rm and leaves the
\* path as it was; in every call rm is issued only after the existence
\* test answered 'exists' and the directory test answered 'file', and a
\* path that is no regular file when rm runs is left as it is.
C17_DeleteGraceful ==
    /\ (ftool = "delete_file" /\ target0.kind # "file" /\ ~fsTouched) =>
          /\ ~RmIssued
          /\ target = target0
          /\ fstatus = "returned" => fresult.kind \in {"File does not exist", "caught"}
    /\ (ftool = "delete_file" /\ RmIssued) =>
          /\ issued = <<"test -f", "test -d directory", "rm">>
          /\ exitsRead >= 2
    /\ (ftool = "delete_file" /\ fpc = "rm") => cres.word \in {"file", ""}
    /\ (DeleteReturned /\ fresult.kind = "Successfully deleted file") =>
          target = AbsentPath
    /\ (DeleteReturned /\ fresult.kind = "Error deleting file") =>
          target.kind # "file"

\* The path was a directory: the call answered without issuing rm.
C17_Witness ==
    /\ DeleteReturned
    /\ target0 = Directory /\ ~fsTouched
    /\ fresult.kind = "File does not exist"
    /\ issued = <<"test -f">>
    /\ target = Directory

WriteSucceeded ==
    ftool = "write_file" /\ fstatus = "returned" /\ fresult.kind = "written"

\* C18: after a write_file call that reports success the file holds exactly
\* contents, and the call reports 'Overwritten' when a regular file was at
\* the path before the write and 'Created' otherwise.
C18_WriteFile ==
    WriteSucceeded =>
        /\ target = RegularFile(fargs.contents)
        /\ fresult.action = IF target0.kind = "file" THEN "Overwritten" ELSE "Created"

\* The texts search_replace returns before it builds the write command.
CheckErrors ==
    {"must be different", "File not found", "Error reading file",
     "is not unique", "not found in file"}

IsWrite(name) == name = "write"

WritesIssued == Len(SelectSeq(issued, IsWrite))

\* C24: a search_replace call that returns the 'must be different', 'File
\* not found', 'Error reading file', 'is not unique' or 'not found in file'
\* error has issued no write command and, unless another process touched
\* it, the file is as it was; a call issues the write command at most once
\* and only after the existence test, the read and every check passed.
C24_NoWriteOnError ==
    ftool = "search_replace" =>
        /\ (fstatus = "returned" /\ fresult.kind \in CheckErrors) =>
              /\ WritesIssued = 0
              /\ fcmd.name # "write"
              /\ ~fsTouched => target = target0
        /\ WritesIssued <= 1
        /\ (WritesIssued = 1 \/ fcmd.name = "write") =>
              /\ fargs.old # fargs.new
              /\ SubSeq(issued, 1, 2) = <<"test -f", "cat">>
              /\ exitsRead >= 2
              /\ Includes(flocal.content, fargs.old)
              /\ fargs.replaceAll \/ SplitCount(flocal.content, fargs.old) <= 1
              /\ ~fsTouched => flocal.content = target0.data

\* The file held old_string twice and replace_all was false: the call
\* answered after the read and the file is as it was.
C24_Witness ==
    /\ ftool = "search_replace" /\ fstatus = "returned"
    /\ fresult.kind = "is not unique"
    /\ issued = <<"test -f", "cat">>
    /\ target = target0 /\ target0.kind = "file"

\* The places (0-based) where replaceAll substitutes: the matches met from
\* the left at or after position from, none overlapping the one before;
\* the empty pattern matches at every position, the end included.
RECURSIVE MatchPositions(_, _, _)
MatchPositions(d, s, from) ==
    IF from > Len(d) THEN <<>>
    ELSE IF s = <<>> THEN <<from>> \o MatchPositions(d, s, from + 1)
    ELSE IF OccursAt(d, s, from + 1)
         THEN <<from>> \o MatchPositions(d, s, from + Len(s))
    ELSE MatchPositions(d, s, from + 1)

\* The replacements a successful call made in the content it read.
ReplacementsMade ==
    IF fargs.replaceAll THEN Len(MatchPositions(flocal.content, fargs.old, 0)) ELSE 1

ReplaceSucceeded ==
    ftool = "search_replace" /\ fstatus = "returned" /\ fresult.kind = "replaced"

\* C25: the number a successful search_replace reports is the number of
\* replacements made in the content: 1 when replace_all is false, the
\* number of places where old_string was replaced when replace_all is
\* true, for every old_string, the empty one included.
C25_ReportedCount ==
    ReplaceSucceeded => fresult.count = ReplacementsMade

(***************************************************************************)
(* One call of get_compose_file or of list_containers.                     *)
(***************************************************************************)
InitHost ==
    /\ ParseIdle /\ ShellIdle /\ ExecIdle /\ ToolIdle /\ HttpIdle /\ FileIdle
    /\ \/ /\ htool = "get_compose_file"
          /\ composeFile \in ComposeFiles
          /\ hostFiles \in [HostPaths -> {"unreadable", "empty", "text"}]
          /\ ci = 1
          /\ allParam = "omitted" /\ daemon = <<>>
       \/ /\ htool = "list_containers"
          /\ allParam \in AllParams
          /\ daemon \in SeqsUpTo(Containers, MaxContainers)
          /\ composeFile = DefaultComposeFile /\ hostFiles = NoFiles
          /\ ci = 0
    /\ foundPath = "" /\ composeContent = <<>>
    /\ queried = "none"
    /\ hstatus = "running" /\ hresult = NoHostText

HostFrame ==
    UNCHANGED <<parseVars, shellVars, execVars, toolVars, httpVars, fileVars>>

\* One pass of `for (const testPath of possiblePaths)`: fs.readFile
\* resolves (foundPath and composeContent are set, break) or rejects (the
\* inner catch, on to the next path).  When the loop is left the handler
\* runs on to its return.
ReadCandidate ==
    /\ htool = "get_compose_file"
    /\ hstatus = "running"
    /\ LET testPath == PossiblePaths(composeFile)[ci]
       IN  IF hostFiles[testPath] # "unreadable"
           THEN /\ foundPath' = testPath
                /\ composeContent' = FileText(hostFiles, testPath)
                /\ hresult' = ComposeAnswer(testPath, FileText(hostFiles, testPath))
                /\ hstatus' = "returned"
                /\ UNCHANGED ci
           ELSE IF ci < Len(PossiblePaths(composeFile))
           THEN /\ ci' = ci + 1
                /\ UNCHANGED <<foundPath, composeContent, hresult, hstatus>>
           ELSE /\ hresult' = ComposeAnswer(foundPath, composeContent)
                /\ hstatus' = "returned"
                /\ UNCHANGED <<ci, foundPath, composeContent>>
    /\ UNCHANGED <<htool, composeFile, hostFiles, allParam, daemon, queried>>
    /\ HostFrame

\* docker.listContainers({ all }) is sent.
ListQuery ==
    /\ htool = "list_containers"
    /\ hstatus = "running"
    /\ queried = "none"
    /\ queried' = IF AllFlag(allParam) THEN "all" ELSE "running"
    /\ UNCHANGED <<htool, composeFile, hostFiles, ci, foundPath, composeContent,
                   allParam, daemon, hstatus, hresult>>
    /\ HostFrame

\* The daemon answers and the handler formats the list.
ListReturns ==
    /\ htool = "list_containers"
    /\ hstatus = "running"
    /\ queried # "none"
    /\ hresult' = ListAnswer(DaemonList(daemon, queried = "all"), AllFlag(allParam))
    /\ hstatus' = "returned"
    /\ UNCHANGED <<htool, composeFile, hostFiles, ci, foundPath, composeContent,
                   allParam, daemon, queried>>
    /\ HostFrame

\* docker.listContainers throws: the catch block's text.
ListFails ==
    /\ htool = "list_containers"
    /\ hstatus = "running"
    /\ queried # "none"
    /\ hresult' = [NoHostText EXCEPT !.kind = "Error listing containers: "]
    /\ hstatus' = "returned"
    /\ UNCHANGED <<htool, composeFile, hostFiles, ci, foundPath, composeContent,
                   allParam, daemon, queried>>
    /\ HostFrame

NextHost == ReadCandidate \/ ListQuery \/ ListReturns \/ ListFails

SpecHost == InitHost /\ [][NextHost]_vars

CanBeRead(path) == hostFiles[path] # "unreadable"

\* C19: get_compose_file returns the content of the first candidate, in the
\* order compose_file, docker/compose.yaml, docker/compose.yml,
\* docker-compose.yaml, docker-compose.yml, compose.yaml, compose.yml, that
\* can be read, and reports 'Docker Compose file not found' only when none
\* of them can be read.
C19_FirstReadableCandidate ==
    (htool = "get_compose_file" /\ hstatus = "returned") =>
        LET order == <<composeFile, "docker/compose.yaml", "docker/compose.yml",
                       "docker-compose.yaml", "docker-compose.yml",
                       "compose.yaml", "compose.yml">>
            readable == {i \in 1..Len(order) : CanBeRead(order[i])}
        IN  IF readable = {}
            THEN hresult.kind = "Docker Compose file not found"
            ELSE LET first == CHOOSE i \in readable : \A j \in readable : i <= j
                 IN  /\ hresult.kind = "Docker Compose Configuration"
                     /\ hresult.path = order[first]
                     /\ hresult.content = FileText(hostFiles, order[first])

\* C20: list_containers asks the daemon with the given all flag (false
\* when omitted), returns one entry per container of the daemon's answer,
\* in its order, and for an empty answer the 'No running containers
\* found...' text when all is false and 'No containers found.' when true.
C20_ListContainers ==
    /\ (htool = "list_containers" /\ queried # "none") =>
          (queried = "all" <=> allParam = "true")
    /\ (htool = "list_containers" /\ hstatus = "returned"
           /\ hresult.kind # "Error listing containers: ") =>
          LET all == allParam = "true"
              IsShown(c) == all \/ c.State = "running"
              answer == SelectSeq(daemon, IsShown)
          IN  /\ Len(hresult.entries) = Len(answer)
              /\ \A i \in 1..Len(answer) :
                    /\ hresult.entries[i].ID = answer[i].Id.short
                    /\ hresult.entries[i].State = answer[i].State
              /\ answer = <<>> =>
                    hresult.kind =
                       IF all THEN "No containers found."
                       ELSE "No running containers found. Use all=true to see all containers."
              /\ answer # <<>> =>
                    hresult.kind = IF all THEN "All Containers:" ELSE "Running Containers:"

\* Without all, a stopped container is left out and the running one listed.
C20_Witness ==
    /\ htool = "list_containers" /\ hstatus = "returned"
    /\ allParam = "omitted"
    /\ Len(daemon) = 2
    /\ daemon[1].State = "exited" /\ daemon[2].State = "running"
    /\ Len(hresult.entries) = 1
    /\ hresult.entries[1].ID = daemon[2].Id.short

====
